---- MODULE Spec2Model ----
(***************************************************************************)
(* Model of silvair_uart_common_libs: the UART frame codec                 *)
(* (uart_common_classes.py: UartAdapter.extract_frames,                    *)
(* eat_bytes_until_preamble, calculate_crc, write_uart_frame), the two     *)
(* threads of the adapter (UartConnectionThread.run, UartAdapter.run),     *)
(* the observer list, and the message codec (messages.py,                  *)
(* message_types.py, message_factory.py).                                  *)
(*                                                                         *)
(* Bytes are naturals in 0..255, byte strings are sequences of bytes.      *)
(***************************************************************************)
EXTENDS Integers, Sequences, FiniteSets, TLC

(***************************************************************************)
(* Bounds of the model.                                                    *)
(***************************************************************************)
\* number of segments (frames, corrupt frames, garbage, prefixes) in a buffer
MaxSegs == 3

\* number of segments the modem sends on the serial line
MaxLine == 2

\* capacity given to the (unbounded) queue.Queue of received chunks
MaxInQ == 1

\* number of write_uart_frame calls
MaxWrites == 2

\* number of register_observer / unregister_observer calls
MaxObsOps == 3

\* longest bytes field of a message drawn for the codec
MaxBlob == 2

\* longest list field (model ids, model descriptions) of such a message
MaxList == 2

(***************************************************************************)
(* Byte-string helpers (Python slicing, 0-based, clamped).                 *)
(***************************************************************************)
Min(a, b) == IF a < b THEN a ELSE b

Max(a, b) == IF a > b THEN a ELSE b

\* s[lo:hi]
PySlice(s, lo, hi) == SubSeq(s, Max(lo, 0) + 1, Min(hi, Len(s)))

\* s[lo:]
PyFrom(s, lo) == SubSeq(s, Max(lo, 0) + 1, Len(s))

RECURSIVE Concat(_)
Concat(ss) ==
    IF Len(ss) = 0 THEN <<>>
    ELSE IF Len(ss) = 1 THEN ss[1]
    ELSE LET h == Len(ss) \div 2
         IN  Concat(SubSeq(ss, 1, h)) \o Concat(SubSeq(ss, h + 1, Len(ss)))

IsPrefix(p, s) == Len(p) <= Len(s) /\ SubSeq(s, 1, Len(p)) = p

\* t occurs in s as a contiguous block
Occurs(t, s) == \E i \in 0..(Len(s) - Len(t)) : SubSeq(s, i + 1, i + Len(t)) = t

(***************************************************************************)
(* CRC engine: crcmod.mkCrcFun(0x18005, rev=False, initCrc=0xFFFF,         *)
(* xorOut=0x0000), bit by bit, most significant bit first.                 *)
(***************************************************************************)
CRC_POLY == 32773

CRC_INIT == 65535

RECURSIVE Xor(_, _)
Xor(a, b) ==
    IF a = 0 THEN b
    ELSE IF b = 0 THEN a
    ELSE ((a + b) % 2) + 2 * Xor(a \div 2, b \div 2)

\* one bit: shift left, and xor the polynomial in if a one was shifted out
\* (the argument is evaluated once, through the bound variable v)
CrcShift(c) ==
    CHOOSE r \in { IF v >= 32768 THEN Xor((v * 2) % 65536, CRC_POLY)
                   ELSE (v * 2) % 65536 : v \in {c} } : TRUE

\* the table mkCrcFun builds: entry i is i, as the high byte of the register,
\* after eight shifts
CrcTable ==
    [i \in 0..255 |->
        CrcShift(CrcShift(CrcShift(CrcShift(
        CrcShift(CrcShift(CrcShift(CrcShift(i * 256))))))))]

\* one byte: the table entry of (high byte xor b), xored into the low byte
\* shifted up
CrcByte(c, b) ==
    LET t == CrcTable[Xor(c \div 256, b)]
    IN  Xor(c % 256, t \div 256) * 256 + (t % 256)

\* the register after the first n bytes of bs
RECURSIVE CrcFold(_, _)
CrcFold(bs, n) ==
    IF n = 0 THEN CRC_INIT
    ELSE CHOOSE r \in { CrcByte(v, bs[n]) : v \in {CrcFold(bs, n - 1)} } : TRUE

\* (the argument is evaluated once, through the bound variable v)
calculate_crc(bytes_data) ==
    CHOOSE r \in {CrcFold(v, Len(v)) : v \in {bytes_data}} : TRUE

\* the checksum with the high byte first
calculate_crc_bytes_big(bytes_data) ==
    LET c == calculate_crc(bytes_data) IN <<c \div 256, c % 256>>

\* to_bytes(2, byteorder='little')
calculate_crc_bytes(bytes_data) ==
    LET c == calculate_crc(bytes_data) IN <<c % 256, c \div 256>>

(***************************************************************************)
(* Frame reassembler.                                                      *)
(***************************************************************************)
UART_PREAMBLE == <<170, 85>>

\* the loop condition without the test of the length
EatCondNoLength(buffer_data) == PySlice(buffer_data, 0, 2) # UART_PREAMBLE

\* while len(buffer_data) > 0 and buffer_data[:2] != UART_PREAMBLE
EatCond(buffer_data) ==
    Len(buffer_data) > 0 /\ PySlice(buffer_data, 0, 2) # UART_PREAMBLE

\* the exception eat_bytes_until_preamble raises ("none": it returns):
\* buffer_data.pop(0) raises IndexError on an empty bytearray
RECURSIVE EatRaises(_)
EatRaises(buffer_data) ==
    IF EatCond(buffer_data)
    THEN IF buffer_data = <<>> THEN "IndexError"
         ELSE EatRaises(Tail(buffer_data))
    ELSE "none"

\* the while loop of eat_bytes_until_preamble: <<buffer_data, orphaned_bytes>>
RECURSIVE EatLoop(_, _)
EatLoop(buffer_data, orphaned_bytes) ==
    IF EatCond(buffer_data)
    THEN EatLoop(Tail(buffer_data), Append(orphaned_bytes, Head(buffer_data)))
    ELSE <<buffer_data, orphaned_bytes>>

\* eat_bytes_until_preamble that returns the popped bytes in reverse order
\* when the buffer was eaten up
eat_bytes_until_preamble_reversed(buffer_data) ==
    LET r == EatLoop(buffer_data, <<>>) IN
    IF Len(r[2]) > 0 /\ Len(r[1]) = 0
    THEN [i \in 1..Len(r[2]) |-> r[2][Len(r[2]) + 1 - i]]
    ELSE r[1]

\* eat_bytes_until_preamble that removes nothing
eat_bytes_until_preamble_keeps_all(buffer_data) == buffer_data

eat_bytes_until_preamble(buffer_data) ==
    LET r == EatLoop(buffer_data, <<>>) IN
    IF Len(r[2]) > 0 /\ Len(r[1]) = 0 THEN r[2] ELSE r[1]

\* the expected CRC computed over OPCODE and PAYLOAD only
ExpectedCrcNoLength(uart_frame, data_len) ==
    calculate_crc(PySlice(uart_frame, 3, 4 + data_len))

\* the CRC the receiver expects for a candidate frame uart_frame
ExpectedCrc(uart_frame, data_len) ==
    calculate_crc(PySlice(uart_frame, 2, 4 + data_len))

\* extract_frames without the CRC comparison (every candidate is accepted)
RECURSIVE extract_frames_nocrc(_)
extract_frames_nocrc(raw_in) ==
    LET raw_uart_data == eat_bytes_until_preamble(raw_in) IN
    IF Len(raw_uart_data) < 6 THEN <<<<>>, raw_uart_data>>
    ELSE
      LET data_len == raw_uart_data[3] IN
      IF Len(raw_uart_data) < 6 + data_len THEN <<<<>>, raw_uart_data>>
      ELSE
        LET uart_frame == PySlice(raw_uart_data, 0, 4 + data_len + 2)
            remaining_data == PyFrom(raw_uart_data, 6 + data_len)
            stripped == PySlice(uart_frame, 2, Len(uart_frame) - 2)
        IN IF Len(remaining_data) > 0
           THEN LET another == extract_frames_nocrc(remaining_data)
                IN <<(<<stripped>> \o another[1]), another[2]>>
           ELSE <<(<<stripped>>), remaining_data>>

\* extract_frames that stops after the first frame (no recursion)
extract_frames_norec(raw_in) ==
    LET raw_uart_data == eat_bytes_until_preamble(raw_in) IN
    IF Len(raw_uart_data) < 6 THEN <<<<>>, raw_uart_data>>
    ELSE
      LET data_len == raw_uart_data[3] IN
      IF Len(raw_uart_data) < 6 + data_len THEN <<<<>>, raw_uart_data>>
      ELSE
        LET uart_frame == PySlice(raw_uart_data, 0, 4 + data_len + 2)
            remaining_data == PyFrom(raw_uart_data, 6 + data_len)
            expected_crc == ExpectedCrc(uart_frame, data_len)
            actual_crc == uart_frame[Len(uart_frame) - 1]
                          + 256 * uart_frame[Len(uart_frame)]
            stripped == PySlice(uart_frame, 2, Len(uart_frame) - 2)
        IN IF expected_crc = actual_crc
           THEN <<(<<stripped>>), remaining_data>>
           ELSE <<(<<>>), remaining_data>>

\* extract_frames(raw_uart_data): <<uart_frames, remaining data>>
RECURSIVE extract_frames(_)
extract_frames(raw_in) ==
    LET raw_uart_data ==
          CHOOSE r \in {eat_bytes_until_preamble(v) : v \in {raw_in}} : TRUE
    IN
    IF Len(raw_uart_data) < 6 THEN <<<<>>, raw_uart_data>>
    ELSE
      LET data_len == raw_uart_data[3] IN
      IF Len(raw_uart_data) < 6 + data_len THEN <<<<>>, raw_uart_data>>
      ELSE
        LET uart_frame == PySlice(raw_uart_data, 0, 4 + data_len + 2)
            remaining_data == PyFrom(raw_uart_data, 6 + data_len)
            expected_crc == ExpectedCrc(uart_frame, data_len)
            actual_crc == uart_frame[Len(uart_frame) - 1]
                          + 256 * uart_frame[Len(uart_frame)]
            stripped == PySlice(uart_frame, 2, Len(uart_frame) - 2)
        IN IF expected_crc = actual_crc
           THEN IF Len(remaining_data) > 0
                THEN LET another ==
                           CHOOSE r \in {extract_frames(v) :
                                            v \in {remaining_data}} : TRUE
                     IN <<(<<stripped>> \o another[1]), another[2]>>
                ELSE <<(<<stripped>>), remaining_data>>
           ELSE <<(<<>>), remaining_data>>

\* the exception extract_frames(raw_uart_data) raises ("none": it returns).
\* Slices of a bytearray and int.from_bytes of a slice never raise; the call
\* of eat_bytes_until_preamble and the recursive call can.
RECURSIVE extract_frames_raises(_)
extract_frames_raises(raw_in) ==
    IF EatRaises(raw_in) # "none" THEN EatRaises(raw_in)
    ELSE
      LET raw_uart_data == eat_bytes_until_preamble(raw_in) IN
      IF Len(raw_uart_data) < 6 THEN "none"
      ELSE
        LET data_len == raw_uart_data[3] IN
        IF Len(raw_uart_data) < 6 + data_len THEN "none"
        ELSE
          LET uart_frame == PySlice(raw_uart_data, 0, 4 + data_len + 2)
              remaining_data == PyFrom(raw_uart_data, 6 + data_len)
              expected_crc == ExpectedCrc(uart_frame, data_len)
              actual_crc == uart_frame[Len(uart_frame) - 1]
                            + 256 * uart_frame[Len(uart_frame)]
          IN IF expected_crc = actual_crc /\ Len(remaining_data) > 0
             THEN extract_frames_raises(remaining_data)
             ELSE "none"

\* the chunk write_uart_frame puts on the out queue
FrameToSend(uart_frame, send_raw) ==
    IF send_raw THEN uart_frame
    ELSE UART_PREAMBLE \o uart_frame \o calculate_crc_bytes(uart_frame)

(***************************************************************************)
(* The adapter: state of UartConnectionThread and UartAdapter, the serial  *)
(* port as the environment, and history variables for the properties.      *)
(***************************************************************************)
VARIABLES
    serial_busy,                \* UartConnectionThread._serial_busy
    processing_frames,          \* UartAdapter._processing_frames
    in_queue,                   \* UartAdapter._in_queue
    out_queue,                  \* UartAdapter._out_queue
    observers,                  \* UartAdapter.observers
    data_to_be_sent,            \* local of UartConnectionThread.run
    not_processed_buffer_data,  \* local of UartAdapter.run
    frames,                     \* local of UartAdapter.run: frames left of the batch
    obs_idx,                    \* list iterator of _insert_parsed_frame
    pumpPc,                     \* "init", "loop", "done"
    procPc,                     \* "new", "init", "loop", "for", "done"
    stopPc,                     \* "idle", "join_conn", "clear", "join", "returned"
    serial_in,                  \* bytes the modem sends, not yet read by the pump
    serial_tx,                  \* bytes the port accepted from serial.write
    cfg,                        \* how often the environment may act (constant)
    call,                       \* a call of a pure function: arguments, result
    hist                        \* history record (see HistInit)

vars == <<serial_busy, processing_frames, in_queue, out_queue, observers,
          data_to_be_sent, not_processed_buffer_data, frames, obs_idx,
          pumpPc, procPc, stopPc, serial_in, serial_tx, cfg, call, hist>>

Observers == {"o1", "o2"}

\* frames the modem sends: the k-th segment carries k, so frames are distinct
LineFrame(k) == IF k % 2 = 1 THEN <<1, 1, k>> ELSE <<0, 8 + k>>

\* a frame as it travels on the line
WireFrame(f) == FrameToSend(f, FALSE)

\* a frame with correct framing and its last CRC byte changed
CorruptFrame(f) ==
    LET w == WireFrame(f) IN
    SubSeq(w, 1, Len(w) - 1) \o <<(w[Len(w)] + 1) % 256>>

\* frames the host writes
HostFrames == {<<0, 9>>, <<1, 1, 34>>}

HistInit ==
    [ line_frames |-> <<>>,     \* valid frames sent by the modem, in order
      wire        |-> <<>>,     \* all bytes read_all has returned
      crc_drops   |-> FALSE,    \* a candidate frame failed its CRC check
      dispatched  |-> <<>>,     \* frames whose delivery has started
      notified    |-> [o \in Observers |-> <<>>],  \* frames each observer got
      partial     |-> FALSE,    \* serial.write accepted a part of a chunk
      rereg       |-> FALSE,    \* register_observer of a registered observer
      cur_seen    |-> <<>>,     \* observers notified of the current frame
      cur_stayed  |-> {},       \* registered during all of the current delivery
      cur_changed |-> FALSE,    \* observer list changed during the delivery
      delivered   |-> FALSE,    \* a delivery has completed
      last_seen   |-> <<>>,     \* cur_seen of the last completed delivery
      last_stayed |-> {},       \* cur_stayed of the last completed delivery
      last_changed |-> FALSE,   \* cur_changed of the last completed delivery
      last_obs    |-> <<>>,     \* observer list when it completed
      enqueued    |-> <<>>,     \* concatenation of the chunks put on out_queue
      writes      |-> 0,        \* write_uart_frame calls
      last_write  |-> <<>>,     \* argument of the last non-raw write_uart_frame
      last_chunk  |-> <<>>,     \* chunk that call enqueued
      obs_ops     |-> 0,        \* register / unregister calls
      stop_started |-> FALSE,   \* stop() was called after start()
      idle_poll   |-> FALSE ]   \* flips at every get() that timed out

\* all sequences over S of length at most n
SeqsUpTo(S, n) == UNION {[1..m -> S] : m \in 0..n}

\* the k-th segment the modem sends
SegBytes(kind, k) ==
    CASE kind = "valid" -> WireFrame(LineFrame(k))
      [] kind = "corrupt" -> CorruptFrame(LineFrame(k))
      [] kind = "garbage" -> <<170>>

LineBytes(kinds) == Concat([k \in 1..Len(kinds) |-> SegBytes(kinds[k], k)])

RECURSIVE LineFrames(_, _)
LineFrames(kinds, k) ==
    IF k > Len(kinds) THEN <<>>
    ELSE (IF kinds[k] = "valid" THEN <<LineFrame(k)>> ELSE <<>>)
         \o LineFrames(kinds, k + 1)

\* state after UartAdapter.__init__ (the connection thread is started, the
\* adapter thread is not); the modem is about to send one of the segment
\* sequences of lines
InitAdapterState(lines, obs_ops, writes) ==
    /\ cfg = [obs_ops |-> obs_ops, writes |-> writes]
    /\ \E kinds \in lines :
         /\ serial_in = LineBytes(kinds)
         /\ hist = [HistInit EXCEPT !.line_frames = LineFrames(kinds, 1)]
    /\ serial_busy = FALSE
    /\ processing_frames = FALSE
    /\ in_queue = <<>>
    /\ out_queue = <<>>
    /\ observers = <<>>
    /\ data_to_be_sent = <<>>
    /\ not_processed_buffer_data = <<>>
    /\ frames = <<>>
    /\ obs_idx = 0
    /\ pumpPc = "init"
    /\ procPc = "new"
    /\ stopPc = "idle"
    /\ serial_tx = <<>>

InitAdapter(lines, obs_ops, writes) ==
    /\ InitAdapterState(lines, obs_ops, writes)
    /\ call = [pc |-> "none"]

(***************************************************************************)
(* UartConnectionThread.run (the transport pump).                          *)
(***************************************************************************)
\* lines 58-63: set the flag, reset the port's buffers (serial_in holds
\* the bytes that arrive after the reset)
PumpStart ==
    /\ pumpPc = "init"
    /\ serial_busy' = TRUE
    /\ data_to_be_sent' = <<>>
    /\ pumpPc' = "loop"
    /\ UNCHANGED <<processing_frames, in_queue, out_queue, observers,
                   not_processed_buffer_data, frames, obs_idx, procPc,
                   stopPc, serial_in, serial_tx, hist, cfg,
                   call>>

\* the chunk of the iteration when no new chunk is taken from the queue
PumpDataNoRefill == data_to_be_sent

\* the chunk the pump works on in this iteration (lines 66-67)
PumpData ==
    IF data_to_be_sent = <<>> /\ out_queue # <<>>
    THEN Head(out_queue) ELSE data_to_be_sent

\* what is left of a chunk after serial.write accepted sent_bytes_n bytes
\* (line 71), and the same with the whole chunk dropped after any write
RestAfterWriteDropAll(data, sent_bytes_n) == <<>>

RestAfterWrite(data, sent_bytes_n) == PyFrom(data, sent_bytes_n)

\* line 73 with an empty read not forwarded
QueuePutNonEmpty(queue, data) ==
    IF data = <<>> THEN queue ELSE Append(queue, data)

\* line 73: self.in_queue.put(self.serial.read_all()), empty or not
QueuePut(queue, data) == Append(queue, data)

\* one iteration of the while loop, lines 65-75; serial.write accepts any
\* number of bytes, read_all returns the bytes that have arrived so far
PumpIter ==
    /\ pumpPc = "loop"
    /\ serial_busy
    /\ Len(in_queue) < MaxInQ
    /\ \E sent_bytes_n \in 0..Len(PumpData), n_rx \in 0..Len(serial_in) :
         /\ out_queue' = IF data_to_be_sent = <<>> /\ out_queue # <<>>
                         THEN Tail(out_queue) ELSE out_queue
         /\ serial_tx' = serial_tx \o PySlice(PumpData, 0, sent_bytes_n)
         /\ data_to_be_sent' = RestAfterWrite(PumpData, sent_bytes_n)
         /\ in_queue' = QueuePut(in_queue, PySlice(serial_in, 0, n_rx))
         /\ serial_in' = PyFrom(serial_in, n_rx)
         /\ hist' = [hist EXCEPT
                       !.wire = @ \o PySlice(serial_in, 0, n_rx),
                       !.partial = @ \/ (0 < sent_bytes_n
                                         /\ sent_bytes_n < Len(PumpData))]
    /\ UNCHANGED <<serial_busy, processing_frames, observers,
                   not_processed_buffer_data, frames, obs_idx, pumpPc,
                   procPc, stopPc, cfg,
                   call>>

\* the while condition is false: run returns
PumpExit ==
    /\ pumpPc = "loop"
    /\ ~serial_busy
    /\ pumpPc' = "done"
    /\ UNCHANGED <<serial_busy, processing_frames, in_queue, out_queue,
                   observers, data_to_be_sent, not_processed_buffer_data,
                   frames, obs_idx, procPc, stopPc, serial_in, serial_tx,
                   hist, cfg,
                   call>>

(***************************************************************************)
(* UartAdapter.run (the frame-processing loop).                            *)
(***************************************************************************)
\* Thread.start() called on the adapter
AdapterStart ==
    /\ procPc = "new"
    /\ procPc' = "init"
    /\ UNCHANGED <<serial_busy, processing_frames, in_queue, out_queue,
                   observers, data_to_be_sent, not_processed_buffer_data,
                   frames, obs_idx, pumpPc, stopPc, serial_in, serial_tx,
                   hist, cfg,
                   call>>

\* lines 232-235
ProcStart ==
    /\ procPc = "init"
    /\ processing_frames' = TRUE
    /\ not_processed_buffer_data' = <<>>
    /\ procPc' = "loop"
    /\ UNCHANGED <<serial_busy, in_queue, out_queue, observers,
                   data_to_be_sent, frames, obs_idx, pumpPc, stopPc,
                   serial_in, serial_tx, hist, cfg,
                   call>>

\* buf begins with a complete candidate frame whose CRC bytes are wrong
CrcFailsAtFront(buf) ==
    /\ Len(buf) >= 6
    /\ PySlice(buf, 0, 2) = UART_PREAMBLE
    /\ Len(buf) >= 6 + buf[3]
    /\ PySlice(buf, 4 + buf[3], 6 + buf[3])
         # calculate_crc_bytes(PySlice(buf, 2, 4 + buf[3]))

\* line 239 with the chunk put in front of the buffered bytes
ChunkPrepended(buffer, chunk) == chunk \o buffer

\* line 239: not_processed_buffer_data += chunk
ChunkAppended(buffer, chunk) == buffer \o chunk

\* history at the start of the for loop of _insert_parsed_frame for frame f
BeginDelivery(h, f) ==
    [h EXCEPT !.dispatched = Append(@, f),
              !.cur_seen = <<>>,
              !.cur_stayed = {observers[i] : i \in 1..Len(observers)},
              !.cur_changed = FALSE]

\* lines 237-243 with a chunk in the queue: append it, extract the frames
\* and enter the for loop of the first frame
ProcGet ==
    /\ procPc = "loop"
    /\ processing_frames
    /\ in_queue # <<>>
    /\ \E r \in {extract_frames(ChunkAppended(not_processed_buffer_data,
                                               Head(in_queue)))} :
       LET buf == ChunkAppended(not_processed_buffer_data, Head(in_queue))
           h == [hist EXCEPT !.crc_drops = @ \/ CrcFailsAtFront(buf)]
       IN /\ in_queue' = Tail(in_queue)
          /\ not_processed_buffer_data' = r[2]
          /\ frames' = r[1]
          /\ obs_idx' = 0
          /\ procPc' = IF r[1] = <<>> THEN "loop" ELSE "for"
          /\ hist' = IF r[1] = <<>> THEN h ELSE BeginDelivery(h, r[1][1])
    /\ UNCHANGED <<serial_busy, processing_frames, out_queue, observers,
                   data_to_be_sent, pumpPc, stopPc, serial_in, serial_tx, cfg,
                   call>>

\* lines 237-246 with an empty queue: get() raises queue.Empty after the
\* timeout and the loop starts over (hist.idle_poll flips to show the pass)
ProcIdle ==
    /\ procPc = "loop"
    /\ processing_frames
    /\ in_queue = <<>>
    /\ hist' = [hist EXCEPT !.idle_poll = ~@]
    /\ UNCHANGED <<serial_busy, processing_frames, in_queue, out_queue,
                   observers, data_to_be_sent, not_processed_buffer_data,
                   frames, obs_idx, pumpPc, procPc, stopPc, serial_in,
                   serial_tx, cfg, call>>

\* the while condition is false: run returns
ProcExit ==
    /\ procPc = "loop"
    /\ ~processing_frames
    /\ procPc' = "done"
    /\ UNCHANGED <<serial_busy, processing_frames, in_queue, out_queue,
                   observers, data_to_be_sent, not_processed_buffer_data,
                   frames, obs_idx, pumpPc, stopPc, serial_in, serial_tx,
                   hist, cfg,
                   call>>

\* one step of "for observer in self.observers": the list iterator yields
\* the element at its index and the observer is notified (lines 194-195)
ProcNotify ==
    /\ procPc = "for"
    /\ obs_idx < Len(observers)
    /\ LET o == observers[obs_idx + 1] IN
       hist' = [hist EXCEPT !.notified[o] = Append(@, Head(frames)),
                            !.cur_seen = Append(@, o)]
    /\ obs_idx' = obs_idx + 1
    /\ UNCHANGED <<serial_busy, processing_frames, in_queue, out_queue,
                   observers, data_to_be_sent, not_processed_buffer_data,
                   frames, pumpPc, procPc, stopPc, serial_in, serial_tx, cfg,
                   call>>

\* the iterator is exhausted: next frame of the batch, or back to the while
ProcForEnd ==
    /\ procPc = "for"
    /\ obs_idx >= Len(observers)
    /\ frames' = Tail(frames)
    /\ obs_idx' = 0
    /\ procPc' = IF Tail(frames) = <<>> THEN "loop" ELSE "for"
    /\ LET h == [hist EXCEPT !.delivered = TRUE,
                             !.last_seen = hist.cur_seen,
                             !.last_stayed = hist.cur_stayed,
                             !.last_changed = hist.cur_changed,
                             !.last_obs = observers,
                             !.cur_seen = <<>>,
                             !.cur_stayed = {},
                             !.cur_changed = FALSE]
       IN hist' = IF Tail(frames) = <<>> THEN h
                  ELSE BeginDelivery(h, Tail(frames)[1])
    /\ UNCHANGED <<serial_busy, processing_frames, in_queue, out_queue,
                   observers, data_to_be_sent, not_processed_buffer_data,
                   pumpPc, stopPc, serial_in, serial_tx, cfg,
                   call>>

(***************************************************************************)
(* Operations called from the application's thread.                        *)
(***************************************************************************)
InList(o, l) == \E i \in 1..Len(l) : l[i] = o

\* list.remove: the first occurrence
RECURSIVE ListRemove(_, _)
ListRemove(l, o) ==
    IF l = <<>> THEN <<>>
    ELSE IF Head(l) = o THEN Tail(l)
    ELSE <<Head(l)>> \o ListRemove(Tail(l), o)

\* register_observer without the membership test
RegisteredAlways(l, o) == Append(l, o)

\* lines 175-176
Registered(l, o) == IF ~InList(o, l) THEN Append(l, o) ELSE l

RegisterObserver(o) ==
    /\ hist.obs_ops < cfg.obs_ops
    /\ observers' = Registered(observers, o)
    /\ hist' = [hist EXCEPT
                  !.obs_ops = @ + 1,
                  !.rereg = @ \/ InList(o, observers),
                  !.cur_changed = @ \/ (procPc = "for" /\ observers' # observers)]
    /\ UNCHANGED <<serial_busy, processing_frames, in_queue, out_queue,
                   data_to_be_sent, not_processed_buffer_data, frames,
                   obs_idx, pumpPc, procPc, stopPc, serial_in, serial_tx, cfg,
                   call>>

\* line 186 (list.remove raises ValueError for an observer not in the list)
UnregisterObserver(o) ==
    /\ hist.obs_ops < cfg.obs_ops
    /\ InList(o, observers)
    /\ observers' = ListRemove(observers, o)
    /\ hist' = [hist EXCEPT !.obs_ops = @ + 1,
                            !.cur_changed = @ \/ procPc = "for",
                            !.cur_stayed = @ \ {o}]
    /\ UNCHANGED <<serial_busy, processing_frames, in_queue, out_queue,
                   data_to_be_sent, not_processed_buffer_data, frames,
                   obs_idx, pumpPc, procPc, stopPc, serial_in, serial_tx, cfg,
                   call>>

\* lines 207-212
WriteUartFrame(uart_frame, send_raw) ==
    /\ hist.writes < cfg.writes
    /\ out_queue' = Append(out_queue, FrameToSend(uart_frame, send_raw))
    /\ hist' = [hist EXCEPT
                  !.writes = @ + 1,
                  !.enqueued = @ \o FrameToSend(uart_frame, send_raw),
                  !.last_write = IF send_raw THEN @ ELSE uart_frame,
                  !.last_chunk = IF send_raw THEN @
                                 ELSE FrameToSend(uart_frame, send_raw)]
    /\ UNCHANGED <<serial_busy, processing_frames, in_queue, observers,
                   data_to_be_sent, not_processed_buffer_data, frames,
                   obs_idx, pumpPc, procPc, stopPc, serial_in, serial_tx, cfg,
                   call>>

\* UartAdapter.stop, line 218: UartConnectionThread.stop clears the flag
StopCall ==
    /\ stopPc = "idle"
    /\ serial_busy' = FALSE
    /\ stopPc' = "join_conn"
    /\ hist' = [hist EXCEPT !.stop_started = (procPc # "new")]
    /\ UNCHANGED <<processing_frames, in_queue, out_queue, observers,
                   data_to_be_sent, not_processed_buffer_data, frames,
                   obs_idx, pumpPc, procPc, serial_in, serial_tx, cfg,
                   call>>

\* line 50: join() returns once the pump has ended; line 221 clears the
\* adapter's flag
StopJoinConn ==
    /\ stopPc = "join_conn"
    /\ pumpPc = "done"
    /\ processing_frames' = FALSE
    /\ stopPc' = "join"
    /\ UNCHANGED <<serial_busy, in_queue, out_queue, observers,
                   data_to_be_sent, not_processed_buffer_data, frames,
                   obs_idx, pumpPc, procPc, serial_in, serial_tx, hist, cfg,
                   call>>

\* line 222: join() returns once run has ended, or raises RuntimeError
\* (caught, line 223) when the adapter thread was never started
StopJoin ==
    /\ stopPc = "join"
    /\ procPc \in {"done", "new"}
    /\ stopPc' = "returned"
    /\ UNCHANGED <<serial_busy, processing_frames, in_queue, out_queue,
                   observers, data_to_be_sent, not_processed_buffer_data,
                   frames, obs_idx, pumpPc, procPc, serial_in, serial_tx,
                   hist, cfg,
                   call>>

(***************************************************************************)
(* Specifications.                                                         *)
(***************************************************************************)
\* receive path: the pump reads, the loop delivers, the application
\* registers an observer
Next ==
    \/ PumpStart
    \/ PumpIter
    \/ AdapterStart
    \/ ProcStart
    \/ ProcGet
    \/ ProcNotify
    \/ ProcForEnd
    \/ \E o \in Observers : RegisterObserver(o)

\* one observer is registered, the modem sends up to MaxLine segments
Spec ==
    /\ InitAdapter(SeqsUpTo({"valid", "corrupt", "garbage"}, MaxLine), 1, 0)
    /\ [][Next]_vars

SpecObs ==
    /\ InitAdapter({<<"valid">>, <<"valid", "valid">>}, MaxObsOps, 0)
    \* observers: one or two frames arrive while the application registers
    \* and unregisters observers
    /\ [][\/ PumpStart
          \/ PumpIter
          \/ AdapterStart
          \/ ProcStart
          \/ ProcGet
          \/ ProcNotify
          \/ ProcForEnd
          \/ \E o \in Observers : RegisterObserver(o)
          \/ \E o \in Observers : UnregisterObserver(o)]_vars

SpecTx ==
    /\ InitAdapter({<<>>}, 0, MaxWrites)
    \* send path: the application writes frames, the pump writes them to the
    \* port (the loop consumes the empty reads of the pump)
    /\ [][\/ \E f \in HostFrames, send_raw \in BOOLEAN : WriteUartFrame(f, send_raw)
          \/ PumpStart
          \/ PumpIter
          \/ AdapterStart
          \/ ProcStart
          \/ ProcGet]_vars

SpecStop ==
    /\ InitAdapter({<<"valid">>}, 1, 0)
    \* life cycle: a frame arrives, an observer is registered, the application
    \* starts and stops the adapter; every thread that can run does run
    /\ [][\/ PumpStart
          \/ PumpIter
          \/ PumpExit
          \/ AdapterStart
          \/ ProcStart
          \/ ProcGet
          \/ ProcIdle
          \/ ProcNotify
          \/ ProcForEnd
          \/ ProcExit
          \/ \E o \in Observers : RegisterObserver(o)
          \/ StopCall
          \/ StopJoinConn
          \/ StopJoin]_vars
    /\ WF_vars(PumpStart \/ PumpIter \/ PumpExit)
    /\ WF_vars(ProcStart \/ ProcGet \/ ProcIdle \/ ProcExit \/ ProcNotify \/ ProcForEnd)
    /\ WF_vars(StopCall \/ StopJoinConn \/ StopJoin)

SpecLive ==
    \* the modem sends two frames, each with a right or a wrong CRC byte
    /\ InitAdapter(({ <<"corrupt", "valid">>, <<"valid", "corrupt">>,
                      <<"corrupt", "corrupt">>, <<"valid", "valid">> }), 1, 0)
    \* the adapter runs and is never stopped: both threads take their steps
    /\ [][\/ PumpStart
          \/ PumpIter
          \/ AdapterStart
          \/ ProcStart
          \/ ProcGet
          \/ ProcIdle
          \/ ProcNotify
          \/ ProcForEnd
          \/ \E o \in Observers : RegisterObserver(o)]_vars
    /\ WF_vars(PumpStart \/ PumpIter)
    /\ WF_vars(ProcStart \/ ProcGet \/ ProcIdle \/ ProcNotify \/ ProcForEnd)

(***************************************************************************)
(* Calls of extract_frames on buffers made of segments: frames as          *)
(* write_uart_frame builds them, frames with a wrong CRC byte, frames      *)
(* whose CRC covers OPCODE and PAYLOAD only, garbage, a preamble followed  *)
(* by a LENGTH byte of 255, and proper prefixes of frames.                 *)
(***************************************************************************)
\* the prefixes are cuts of a frame on the wire: inside the preamble, after
\* LENGTH, and one byte short of the whole frame
SegPool ==
    {[kind |-> k, f |-> f, n |-> 0] :
        k \in {"valid", "corrupt", "opcrc"}, f \in HostFrames}
    \cup {[kind |-> "garbage", f |-> g, n |-> 0] : g \in {<<0>>, <<170>>}}
    \cup {[kind |-> "header", f |-> <<255>>, n |-> 0]}
    \cup UNION {{[kind |-> "prefix", f |-> f, n |-> n] : n \in {1, 3, Len(f) + 3}} :
                   f \in HostFrames}

DescBytes(d) ==
    CASE d.kind = "valid" -> WireFrame(d.f)
      [] d.kind = "corrupt" -> CorruptFrame(d.f)
      \* a frame whose CRC is computed over OPCODE || PAYLOAD (LENGTH left out)
      [] d.kind = "opcrc" ->
            UART_PREAMBLE \o d.f \o calculate_crc_bytes(Tail(d.f))
      [] d.kind = "garbage" -> d.f
      [] d.kind = "header" -> UART_PREAMBLE \o d.f
      [] d.kind = "prefix" -> SubSeq(WireFrame(d.f), 1, d.n)

SegsBytes(segs) == Concat([i \in 1..Len(segs) |-> DescBytes(segs[i])])

\* UartAdapter.extract_frames(call.raw)
ExtractCall ==
    /\ call.pc = "extract"
    /\ \E e \in {extract_frames_raises(call.raw)} :
         IF e # "none"
         THEN call' = [call EXCEPT !.pc = "raised", !.exc = e]
         ELSE \E r \in {extract_frames(call.raw)} :
                call' = [call EXCEPT !.pc = "extracted", !.frames = r[1],
                                     !.rest = r[2]]
    /\ UNCHANGED <<serial_busy, processing_frames, in_queue, out_queue,
                   observers, data_to_be_sent, not_processed_buffer_data,
                   frames, obs_idx, pumpPc, procPc, stopPc, serial_in,
                   serial_tx, cfg, hist>>

SpecFraming ==
    /\ InitAdapterState({<<>>}, 0, 1)
    /\ \E segs \in SeqsUpTo(SegPool, MaxSegs) :
         call = [pc |-> "extract", segs |-> segs, raw |-> SegsBytes(segs),
                 frames |-> <<>>, rest |-> <<>>, exc |-> "none"]
    /\ [][\/ ExtractCall
          \/ \E f \in HostFrames, send_raw \in BOOLEAN : WriteUartFrame(f, send_raw)]_vars

(***************************************************************************)
(* Message codec: messages.py, message_types.py, message_factory.py.       *)
(***************************************************************************)
UART_CMD_LEN == 1

UART_LENGTH_LEN == 1

UART_INSTANCE_INDEX_LEN == 1

UART_SUB_INDEX_LEN == 1

UART_MESH_OPCODE_LEN == 2

UART_MODEM_STATE_LEN == 1

UART_ERROR_ID_LEN == 1

UART_PROPERTY_ID_LEN == 2

UART_ATTENTION_EVENT_LEN == 1

UART_UUID_LEN == 16

UART_DFU_FIRMWARE_SIZE_LEN == 4

UART_DFU_FIRMWARE_CRC_LEN == 4

UART_DFU_APP_DATA_LENGTH_LEN == 1

UART_DFU_STATUS_LEN == 1

UART_DFU_SUPPORTED_PAGE_SIZE_LEN == 4

UART_DFU_FIRMWARE_OFFSET_LEN == 4

UART_REQUESTED_PAGE_SIZE_LEN == 4

UART_DFU_DATA_LENGTH_LEN == 1

UART_DFU_FIRMWARE_SHA256_LEN == 32

UART_DFU_PRE_VALIDATION_STATUS_LEN == 1

UART_COMPANY_ID_LEN == 2

UART_TEST_ID_LEN == 1

UART_MODEL_ID_LEN == 2

UART_SENSOR_SETUP_SERVER_CONFIG_LEN == 10

UartCommand ==
    [ PingRequest |-> 1, PongResponse |-> 2, InitDeviceEvent |-> 3,
      CreateInstancesRequest |-> 4, CreateInstancesResponse |-> 5,
      InitNodeEvent |-> 6, MeshMessageRequest |-> 7, OpcodeError |-> 8,
      StartNodeRequest |-> 9, StartNodeResponse |-> 11,
      FactoryResetRequest |-> 12, FactoryResetResponse |-> 13,
      FactoryResetEvent |-> 14, MeshMessageResponse |-> 15,
      CurrentStateRequest |-> 16, CurrentStateResponse |-> 17, Error |-> 18,
      FirmwareVersionRequest |-> 19, FirmwareVersionResponse |-> 20,
      SensorUpdateRequest |-> 21, AttentionEvent |-> 22,
      SoftResetRequest |-> 23, SoftResetResponse |-> 24,
      SensorUpdateResponse |-> 25, DeviceUUIDRequest |-> 26,
      DeviceUUIDResponse |-> 27, StartTestRequest |-> 32,
      StartTestResponse |-> 33, DfuInitRequest |-> 128,
      DfuInitResponse |-> 129, DfuStatusRequest |-> 130,
      DfuStatusResponse |-> 131, DfuPageCreateRequest |-> 132,
      DfuPageCreateResponse |-> 133, DfuWriteDataEvent |-> 134,
      DfuPageStoreRequest |-> 135, DfuPageStoreResponse |-> 136,
      DfuStateRequest |-> 137, DfuStateResponse |-> 138,
      DfuCancelRequest |-> 139, DfuCancelResponse |-> 140, Generic |-> 255 ]

ModelID ==
    [ GenOnOffClientID |-> 4097, GenLevelClientID |-> 4099,
      GenPowerOnOffClientID |-> 4104, LightLightnessClientID |-> 4866,
      LightLCClientID |-> 4881, SensorServerID |-> 4352,
      SensorSetupServerID |-> 4353, LightLightnessServerID |-> 4864,
      LightLCServerID |-> 4879, SensorClientID |-> 4354,
      HealthServerID |-> 2, HealthClientID |-> 3 ]

ModemState ==
    [ InitDevice |-> 0, Device |-> 1, InitNode |-> 2, Node |-> 3,
      Unknown |-> 255 ]

Error ==
    [ InvalidCRC |-> 0, InvalidCMD |-> 1, InvalidLen |-> 2,
      InvalidState |-> 3, InvalidParam |-> 4, Timeout |-> 5,
      NoLicenseForModelRegistration |-> 6,
      NoResourcesForModelRegistration |-> 7,
      MeshMessageRequestProcessError |-> 8 ]

DFUStatus ==
    [ DFU_INVALID_CODE |-> 0, DFU_SUCCESS |-> 1,
      DFU_OPCODE_NOT_SUPPORTED |-> 2, DFU_INVALID_PARAMETER |-> 3,
      DFU_INSUFFICIENT_RESOURCES |-> 4, DFU_INVALID_OBJECT |-> 5,
      DFU_UNSUPPORTED_TYPE |-> 7, DFU_OPERATION_NOT_PERMITTED |-> 8,
      DFU_OPERATION_FAILED |-> 10,
      DFU_FIRMWARE_SUCCESSFULLY_UPDATED |-> 255 ]

AttentionEvent == [ Off |-> 0, On |-> 1 ]

DfuStatus == [ InProgress |-> 1, NotInProgress |-> 0 ]

\* the values of the members of an IntEnum
Members(enum) == {enum[n] : n \in DOMAIN enum}

RECURSIVE Pow256(_)
Pow256(n) == IF n = 0 THEN 1 ELSE 256 * Pow256(n - 1)

\* v.to_bytes(n, byteorder='big', signed=False)
to_bytes_big(v, n) == [i \in 1..n |-> (v \div Pow256(n - i)) % 256]

\* v.to_bytes(n, byteorder='little', signed=False), for 0 <= v < 256^n
to_bytes(v, n) == [i \in 1..n |-> (v \div Pow256(i - 1)) % 256]

\* int.from_bytes(bs, byteorder='little'); the empty string gives 0
RECURSIVE from_bytes(_)
from_bytes(bs) ==
    IF bs = <<>> THEN 0 ELSE Head(bs) + 256 * from_bytes(Tail(bs))

\* io.BytesIO(data).read(n) at position pos: at most n bytes, all the
\* remaining bytes for a negative n
stream_read(data, pos, n) ==
    IF n < 0 THEN PyFrom(data, pos) ELSE PySlice(data, pos, pos + n)

(* The fields of the message classes.  kind is "int" (an unsigned integer  *)
(* of len bytes), "enum" (an IntEnum of len bytes), "blob" (bytes with a   *)
(* constant length in get_length), "rest" (bytes that get_length           *)
(* measures), "ids" (a list of model ids) or "descs" (a list of            *)
(* ModelDesc).                                                             *)
FInt(name, len) == [name |-> name, kind |-> "int", len |-> len, enum |-> {}]

FEnum(name, len, enum) ==
    [name |-> name, kind |-> "enum", len |-> len, enum |-> Members(enum)]

FBlob(name, len) == [name |-> name, kind |-> "blob", len |-> len, enum |-> {}]

FVar(name, kind) == [name |-> name, kind |-> kind, len |-> 0, enum |-> {}]

\* the classes without fields: serialize writes the common part only
NoPayloadCommands ==
    { UartCommand.StartNodeRequest, UartCommand.StartNodeResponse,
      UartCommand.FactoryResetRequest, UartCommand.FactoryResetResponse,
      UartCommand.FactoryResetEvent, UartCommand.CurrentStateRequest,
      UartCommand.FirmwareVersionRequest, UartCommand.SoftResetRequest,
      UartCommand.SoftResetResponse, UartCommand.SensorUpdateResponse,
      UartCommand.DeviceUUIDRequest, UartCommand.StartTestResponse,
      UartCommand.DfuStatusRequest, UartCommand.DfuPageStoreRequest,
      UartCommand.DfuStateRequest, UartCommand.DfuCancelRequest,
      UartCommand.DfuCancelResponse }

Class(shape, fields) == [shape |-> shape, fields |-> fields]

\* the message class of a command: the shape of its deserialize and its
\* fields in the order serialize writes them
MessageClass(cmd) ==
    CASE cmd \in NoPayloadCommands -> Class("empty", <<>>)
      [] cmd \in {UartCommand.PingRequest, UartCommand.PongResponse} ->
            Class("fixed_rest", <<FVar("data", "rest")>>)
      [] cmd \in {UartCommand.InitDeviceEvent,
                  UartCommand.CreateInstancesResponse,
                  UartCommand.InitNodeEvent} ->
            Class("ids", <<FVar("model_ids", "ids")>>)
      [] cmd = UartCommand.CreateInstancesRequest ->
            Class("descs", <<FVar("model_descs", "descs")>>)
      [] cmd = UartCommand.MeshMessageRequest ->
            Class("fixed_rest",
                  << FInt("instance_index", UART_INSTANCE_INDEX_LEN),
                     FInt("sub_index", UART_SUB_INDEX_LEN),
                     FInt("mesh_opcode", UART_MESH_OPCODE_LEN),
                     FVar("mesh_command", "rest") >>)
      [] cmd = UartCommand.MeshMessageResponse ->
            Class("fixed",
                  << FInt("instance_index", UART_INSTANCE_INDEX_LEN),
                     FInt("sub_index", UART_SUB_INDEX_LEN) >>)
      [] cmd = UartCommand.CurrentStateResponse ->
            Class("fixed",
                  <<FEnum("state", UART_MODEM_STATE_LEN, ModemState)>>)
      [] cmd = UartCommand.Error ->
            Class("fixed", <<FEnum("error", UART_ERROR_ID_LEN, Error)>>)
      [] cmd = UartCommand.FirmwareVersionResponse ->
            Class("firmware_version", <<FVar("firmware_version", "rest")>>)
      [] cmd = UartCommand.SensorUpdateRequest ->
            Class("fixed_rest",
                  << FInt("instance_index", UART_INSTANCE_INDEX_LEN),
                     FInt("property_id", UART_PROPERTY_ID_LEN),
                     FVar("data", "rest") >>)
      [] cmd = UartCommand.AttentionEvent ->
            Class("fixed",
                  <<FEnum("attention", UART_ATTENTION_EVENT_LEN,
                          AttentionEvent)>>)
      [] cmd = UartCommand.DeviceUUIDResponse ->
            Class("uuid", <<FBlob("uuid", UART_UUID_LEN)>>)
      [] cmd = UartCommand.DfuInitRequest ->
            Class("inner_length",
                  << FInt("firmware_size", UART_DFU_FIRMWARE_SIZE_LEN),
                     FBlob("firmware_sha256", UART_DFU_FIRMWARE_SHA256_LEN),
                     FInt("app_data_length", UART_DFU_APP_DATA_LENGTH_LEN),
                     FVar("app_data", "rest") >>)
      [] cmd \in {UartCommand.DfuInitResponse,
                  UartCommand.DfuPageCreateResponse,
                  UartCommand.DfuPageStoreResponse} ->
            Class("fixed", <<FEnum("status", UART_DFU_STATUS_LEN, DFUStatus)>>)
      [] cmd = UartCommand.DfuStatusResponse ->
            Class("fixed",
                  << FEnum("status", UART_DFU_STATUS_LEN, DFUStatus),
                     FInt("supported_page_size",
                          UART_DFU_SUPPORTED_PAGE_SIZE_LEN),
                     FInt("firmware_offset", UART_DFU_FIRMWARE_OFFSET_LEN),
                     FInt("firmware_crc", UART_DFU_FIRMWARE_CRC_LEN) >>)
      [] cmd = UartCommand.DfuPageCreateRequest ->
            Class("fixed",
                  <<FInt("requested_page_size",
                         UART_REQUESTED_PAGE_SIZE_LEN)>>)
      [] cmd = UartCommand.DfuWriteDataEvent ->
            Class("inner_length",
                  << FInt("data_len", UART_DFU_DATA_LENGTH_LEN),
                     FVar("data", "rest") >>)
      [] cmd = UartCommand.DfuStateResponse ->
            Class("fixed",
                  <<FEnum("status", UART_DFU_PRE_VALIDATION_STATUS_LEN,
                          DfuStatus)>>)
      [] cmd = UartCommand.StartTestRequest ->
            Class("fixed",
                  << FInt("company_id", UART_COMPANY_ID_LEN),
                     FInt("test_id", UART_TEST_ID_LEN),
                     FInt("instance_index", UART_INSTANCE_INDEX_LEN) >>)
      [] cmd = UartCommand.Generic -> Class("generic", <<>>)

\* the commands message_factory knows a class for
UART_CLASSES == Members(UartCommand) \ {UartCommand.OpcodeError}

\* position of the field called name
FieldIndex(fields, name) ==
    CHOOSE i \in 1..Len(fields) : fields[i].name = name

\* a message object: its type and its fields, by name
Message(type, vals) ==
    LET fields == MessageClass(type).fields IN
    [n \in {"type"} \cup {fields[i].name : i \in 1..Len(fields)} |->
        IF n = "type" THEN type ELSE vals[FieldIndex(fields, n)]]

ModelDesc(model_id, config) == [model_id |-> model_id, config |-> config]

ModelDesc_get_length(desc) == UART_MODEL_ID_LEN + Len(desc.config)

ModelDesc_serialize(desc) ==
    to_bytes(desc.model_id, UART_MODEL_ID_LEN)
    \o (IF desc.model_id = ModelID.SensorSetupServerID
        THEN desc.config ELSE <<>>)

\* reads one ModelDesc at pos
ModelDesc_deserialize(data, pos) ==
    LET b == stream_read(data, pos, UART_MODEL_ID_LEN)
        model_id == from_bytes(b)
        config ==
            IF model_id = ModelID.SensorSetupServerID
            THEN stream_read(data, pos + Len(b),
                             UART_SENSOR_SETUP_SERVER_CONFIG_LEN)
            ELSE <<>>
    IN  IF model_id \notin Members(ModelID)
        THEN [exc |-> "ValueError"]
        ELSE [exc |-> "none", desc |-> ModelDesc(model_id, config),
              pos |-> pos + Len(b) + Len(config)]

RECURSIVE SumSeq(_)
SumSeq(ns) ==
    IF Len(ns) = 0 THEN 0
    ELSE IF Len(ns) = 1 THEN ns[1]
    ELSE LET h == Len(ns) \div 2
         IN  SumSeq(SubSeq(ns, 1, h)) + SumSeq(SubSeq(ns, h + 1, Len(ns)))

\* what get_length adds for field f with value v
FieldLength(f, v) ==
    CASE f.kind \in {"int", "enum", "blob"} -> f.len
      [] f.kind = "rest" -> Len(v)
      [] f.kind = "ids" -> UART_MODEL_ID_LEN * Len(v)
      [] f.kind = "descs" ->
            SumSeq([i \in 1..Len(v) |-> ModelDesc_get_length(v[i])])

get_length(msg) ==
    LET fields == MessageClass(msg.type).fields IN
    SumSeq([i \in 1..Len(fields) |->
               FieldLength(fields[i], msg[fields[i].name])])

\* what serialize writes for field f with value v
FieldBytes(f, v) ==
    CASE f.kind \in {"int", "enum"} -> to_bytes(v, f.len)
      [] f.kind \in {"blob", "rest"} -> v
      [] f.kind = "ids" ->
            Concat([i \in 1..Len(v) |-> to_bytes(v[i], UART_MODEL_ID_LEN)])
      [] f.kind = "descs" ->
            Concat([i \in 1..Len(v) |-> ModelDesc_serialize(v[i])])

\* to_bytes that takes every integer and keeps its low bytes
IntFitsAlways(v, n) == TRUE

\* v fits in n bytes (the integers of the model are below 2^31, so that
\* every one of them fits in four bytes)
IntFits(v, n) == n >= 4 \/ v < Pow256(n)

\* to_bytes raises OverflowError for an integer that does not fit
FieldOverflows(f, v) ==
    CASE f.kind \in {"int", "enum"} -> ~IntFits(v, f.len)
      [] f.kind = "ids" ->
            \E i \in 1..Len(v) : ~IntFits(v[i], UART_MODEL_ID_LEN)
      [] f.kind = "descs" ->
            \E i \in 1..Len(v) : ~IntFits(v[i].model_id, UART_MODEL_ID_LEN)
      [] OTHER -> FALSE

serialize_common_part(msg) ==
    to_bytes(get_length(msg), UART_LENGTH_LEN)
    \o to_bytes(msg.type, UART_CMD_LEN)

\* msg.serialize(stream); stream.getvalue()
serialize(msg) ==
    LET fields == MessageClass(msg.type).fields IN
    IF MessageClass(msg.type).shape = "generic"
    THEN [exc |-> "AssertionError"]
    ELSE IF \/ ~IntFits(get_length(msg), UART_LENGTH_LEN)
            \/ \E i \in 1..Len(fields) :
                 FieldOverflows(fields[i], msg[fields[i].name])
    THEN [exc |-> "OverflowError"]
    ELSE [exc |-> "none",
          bytes |-> serialize_common_part(msg)
                    \o Concat([i \in 1..Len(fields) |->
                                  FieldBytes(fields[i], msg[fields[i].name])])]

serialize_message(msg) == serialize(msg)

\* deserialize_common_part without the comparison of the opcode
deserialize_common_part_any_opcode(data, type) ==
    [exc |-> "none",
     length |-> from_bytes(stream_read(data, 0, UART_LENGTH_LEN)),
     pos |-> Min(Len(data), UART_LENGTH_LEN + UART_CMD_LEN)]

deserialize_common_part(data, type) ==
    LET length == from_bytes(stream_read(data, 0, UART_LENGTH_LEN))
        opcode == from_bytes(stream_read(data, UART_LENGTH_LEN, UART_CMD_LEN))
    IN  IF opcode # type THEN [exc |-> "InvalidOpcode"]
        ELSE [exc |-> "none", length |-> length,
              pos |-> Min(Len(data), UART_LENGTH_LEN + UART_CMD_LEN)]

\* the fields read one after the other before any check of the length
FixedPart(fields) ==
    SelectSeq(fields, LAMBDA f : f.kind \in {"int", "enum", "blob"})

FixedLen(fields) ==
    SumSeq([i \in 1..Len(FixedPart(fields)) |-> FixedPart(fields)[i].len])

\* reads the fields i.. of fixed at pos; an IntEnum raises ValueError for a
\* value that is no member; a short read gives a short value
RECURSIVE ReadFixed(_, _, _, _, _)
ReadFixed(data, pos, fixed, i, vals) ==
    IF i > Len(fixed) THEN [exc |-> "none", vals |-> vals, pos |-> pos]
    ELSE LET f == fixed[i]
             b == stream_read(data, pos, f.len)
             v == IF f.kind = "blob" THEN b ELSE from_bytes(b)
         IN  IF f.kind = "enum" /\ v \notin f.enum
             THEN [exc |-> "ValueError"]
             ELSE ReadFixed(data, pos + Len(b), fixed, i + 1, Append(vals, v))

\* the loop of the model ids with the list built back to front
RECURSIVE ReadModelIdsReversed(_, _, _, _)
ReadModelIdsReversed(data, pos, length, model_ids) ==
    IF length >= UART_MODEL_ID_LEN
    THEN LET b == stream_read(data, pos, UART_MODEL_ID_LEN)
             model_id == from_bytes(b)
         IN  IF model_id \notin Members(ModelID)
             THEN [exc |-> "ValueError"]
             ELSE ReadModelIdsReversed(data, pos + Len(b),
                                       length - UART_MODEL_ID_LEN,
                                       <<model_id>> \o model_ids)
    ELSE IF length # 0 THEN [exc |-> "InvalidLen"]
    ELSE [exc |-> "none", vals |-> <<model_ids>>]

\* while length >= UART_MODEL_ID_LEN: read a model id
RECURSIVE ReadModelIds(_, _, _, _)
ReadModelIds(data, pos, length, model_ids) ==
    IF length >= UART_MODEL_ID_LEN
    THEN LET b == stream_read(data, pos, UART_MODEL_ID_LEN)
             model_id == from_bytes(b)
         IN  IF model_id \notin Members(ModelID)
             THEN [exc |-> "ValueError"]
             ELSE ReadModelIds(data, pos + Len(b), length - UART_MODEL_ID_LEN,
                               Append(model_ids, model_id))
    ELSE IF length # 0 THEN [exc |-> "InvalidLen"]
    ELSE [exc |-> "none", vals |-> <<model_ids>>]

\* while length >= UART_MODEL_ID_LEN: read a ModelDesc
RECURSIVE ReadModelDescs(_, _, _, _)
ReadModelDescs(data, pos, length, model_descs) ==
    IF length >= UART_MODEL_ID_LEN
    THEN LET r == ModelDesc_deserialize(data, pos)
         IN  IF r.exc # "none" THEN [exc |-> r.exc]
             ELSE ReadModelDescs(data, r.pos,
                                 length - ModelDesc_get_length(r.desc),
                                 Append(model_descs, r.desc))
    ELSE IF length # 0 THEN [exc |-> "InvalidLen"]
    ELSE [exc |-> "none", vals |-> <<model_descs>>]

\* the comparison of the inner length with the blob left out
InnerLengthMismatchIgnored(inner, blob) == FALSE

\* if self.app_data_length != len(self.app_data)
InnerLengthMismatch(inner, blob) == inner # Len(blob)

\* a class without fields that accepts every LENGTH
DeserializeEmptyAnyLength(length) == [exc |-> "none", vals |-> <<>>]

\* the body of deserialize of a class without fields
DeserializeEmpty(length) ==
    IF length # 0 THEN [exc |-> "InvalidLen"]
    ELSE [exc |-> "none", vals |-> <<>>]

\* the body of deserialize after the common part, by the shape of the class
DeserializeFields(shape, fields, data, pos, length) ==
    LET fixed == FixedPart(fields)
        r == ReadFixed(data, pos, fixed, 1, <<>>)
        rest_len == length - FixedLen(fields)
    IN
    CASE shape = "empty" -> DeserializeEmpty(length)
      [] shape = "fixed" ->
            IF r.exc # "none" THEN [exc |-> r.exc]
            ELSE IF rest_len # 0 THEN [exc |-> "InvalidLen"]
            ELSE [exc |-> "none", vals |-> r.vals]
      [] shape = "fixed_rest" ->
            LET rest == stream_read(data, r.pos, rest_len) IN
            IF rest_len # Len(rest) THEN [exc |-> "InvalidLen"]
            ELSE [exc |-> "none", vals |-> Append(r.vals, rest)]
      [] shape = "firmware_version" ->
            IF length = 0 THEN [exc |-> "InvalidLen"]
            ELSE [exc |-> "none", vals |-> <<stream_read(data, pos, length)>>]
      [] shape = "ids" -> ReadModelIds(data, pos, length, <<>>)
      [] shape = "descs" -> ReadModelDescs(data, pos, length, <<>>)
      [] shape = "uuid" ->
            IF rest_len # 0 THEN [exc |-> "InvalidLen"]
            ELSE IF Len(r.vals[1]) - UART_UUID_LEN # 0
            THEN [exc |-> "InvalidLen"]
            ELSE [exc |-> "none", vals |-> r.vals]
      [] shape = "inner_length" ->
            LET inner == r.vals[Len(r.vals)]
                rest == stream_read(data, r.pos, rest_len)
            IN  IF rest_len # inner THEN [exc |-> "InvalidLen"]
                ELSE IF InnerLengthMismatch(inner, rest)
                THEN [exc |-> "InvalidLen"]
                ELSE [exc |-> "none", vals |-> Append(r.vals, rest)]

\* msg_class().deserialize(stream)
deserialize(type, data) ==
    IF MessageClass(type).shape = "generic" THEN [exc |-> "AssertionError"]
    ELSE LET c == deserialize_common_part(data, type) IN
         IF c.exc # "none" THEN [exc |-> c.exc]
         ELSE LET r == DeserializeFields(MessageClass(type).shape,
                                         MessageClass(type).fields,
                                         data, c.pos, c.length)
              IN  IF r.exc # "none" THEN [exc |-> r.exc]
                  ELSE [exc |-> "none", msg |-> Message(type, r.vals)]

\* deserialize_message with the class looked up by the first byte
deserialize_message_by_first_byte(data) ==
    IF Len(data) < 2 THEN [exc |-> "InvalidLen"]
    ELSE IF data[1] \notin UART_CLASSES THEN [exc |-> "InvalidOpcode"]
    ELSE deserialize(data[1], data)

deserialize_message(data) ==
    IF Len(data) < 2 THEN [exc |-> "InvalidLen"]
    ELSE IF data[2] \notin UART_CLASSES THEN [exc |-> "InvalidOpcode"]
    ELSE deserialize(data[2], data)

(***************************************************************************)
(* Calls of serialize_message and deserialize_message on messages whose    *)
(* fields range over small sets of values.                                 *)
(***************************************************************************)
CodecBytes == {0, 170}

\* bytes objects of length n
BytesOfLen(n) == {[i \in 1..n |-> b] : b \in CodecBytes}

\* integers of len bytes; one-byte integers include the lengths of the blobs
IntValues(len) ==
    IF len = 1 THEN (0..MaxBlob) \cup {255}
    ELSE {0, 258, IF len >= 4 THEN 2147483647 ELSE Pow256(len) - 1}

ModelIdPool ==
    { ModelID.GenOnOffClientID, ModelID.SensorSetupServerID,
      ModelID.HealthServerID, 0 }

ModelDescPool ==
    { ModelDesc(model_id, config) :
        model_id \in { ModelID.GenOnOffClientID, ModelID.SensorSetupServerID },
        config \in {<<>>, <<170>>}
                   \cup BytesOfLen(UART_SENSOR_SETUP_SERVER_CONFIG_LEN) }

FieldDomain(f) ==
    CASE f.kind = "int" -> IntValues(f.len)
      [] f.kind = "enum" -> f.enum \cup {CHOOSE v \in 0..255 :
                                         v \notin f.enum /\ \A w \in 0..(v - 1) : w \in f.enum}
      [] f.kind = "blob" ->
            BytesOfLen(f.len - 1) \cup BytesOfLen(f.len)
            \cup BytesOfLen(f.len + 1)
      [] f.kind = "rest" -> SeqsUpTo(CodecBytes, MaxBlob)
      [] f.kind = "ids" -> SeqsUpTo(ModelIdPool, MaxList)
      [] f.kind = "descs" -> SeqsUpTo(ModelDescPool, MaxList)

\* the assignments of values to the fields
RECURSIVE FieldValues(_)
FieldValues(fields) ==
    IF fields = <<>> THEN {<<>>}
    ELSE {<<v>> \o vals : v \in FieldDomain(Head(fields)),
                          vals \in FieldValues(Tail(fields))}

\* data = serialize_message(call.msg)
SerializeCall ==
    /\ call.pc = "serialize"
    /\ \E r \in {serialize_message(call.msg)} :
         call' = [call EXCEPT !.pc = "serialized", !.ser = r]
    /\ UNCHANGED <<serial_busy, processing_frames, in_queue, out_queue,
                   observers, data_to_be_sent, not_processed_buffer_data,
                   frames, obs_idx, pumpPc, procPc, stopPc, serial_in,
                   serial_tx, cfg, hist>>

\* deserialize_message(data)
DeserializeCall ==
    /\ call.pc = "serialized"
    /\ call.ser.exc = "none"
    /\ \E r \in {deserialize_message(call.ser.bytes)} :
         call' = [call EXCEPT !.pc = "deserialized", !.out = r]
    /\ UNCHANGED <<serial_busy, processing_frames, in_queue, out_queue,
                   observers, data_to_be_sent, not_processed_buffer_data,
                   frames, obs_idx, pumpPc, procPc, stopPc, serial_in,
                   serial_tx, cfg, hist>>

SpecCodec ==
    /\ InitAdapterState({<<>>}, 0, 0)
    /\ \E msg \in (UNION {{Message(type, vals) :
                              vals \in FieldValues(MessageClass(type).fields)} :
                          type \in UART_CLASSES}) :
         call = [pc |-> "serialize", msg |-> msg,
                 ser |-> [exc |-> "pending"], out |-> [exc |-> "pending"]]
    /\ [][\/ SerializeCall
          \/ DeserializeCall]_vars

(***************************************************************************)
(* Properties.                                                             *)
(***************************************************************************)
\* frame f is followed, somewhere in the bytes s, by the little-endian CRC
\* computed over it
CrcValidIn(f, s) == \E c \in {calculate_crc_bytes(f)} : Occurs(f \o c, s)

\* the step of the processing loop that takes a chunk and extracts frames
IsExtractStep == procPc = "loop" /\ Len(in_queue') < Len(in_queue)

\* C1: extract_frames never returns, and no observer is ever notified of, a
\* candidate frame whose trailing little-endian CRC differs from the CRC
\* computed over it; a candidate at the front of the buffer that fails the
\* check is removed whole (6 + LENGTH bytes) and nothing is returned for it.
C1_CrcFailureNeverDelivered ==
    [][ /\ IsExtractStep =>
             LET buf == not_processed_buffer_data \o Head(in_queue) IN
             /\ \A i \in 1..Len(frames') : CrcValidIn(frames'[i], buf)
             /\ CrcFailsAtFront(buf) =>
                  /\ frames' = <<>>
                  /\ not_processed_buffer_data' = PyFrom(buf, 6 + buf[3])
        /\ hist'.notified # hist.notified =>
             \A o \in Observers : \A i \in 1..Len(hist'.notified[o]) :
               CrcValidIn(hist'.notified[o][i], hist'.wire) ]_vars

\* a corrupt frame was dropped and a frame has been delivered
C1_Witness ==
    /\ hist.crc_drops
    /\ \E o \in Observers : hist.notified[o] # <<>>

\* position of frame f among the frames the modem sent (0: not sent)
LinePos(f) ==
    IF \E k \in 1..Len(hist.line_frames) : hist.line_frames[k] = f
    THEN CHOOSE k \in 1..Len(hist.line_frames) : hist.line_frames[k] = f
    ELSE 0

\* fs lists frames of the line in the order of the line, none twice
InLineOrder(fs) ==
    /\ \A i \in 1..Len(fs) : LinePos(fs[i]) > 0
    /\ \A i, j \in 1..Len(fs) : i < j => LinePos(fs[i]) < LinePos(fs[j])

C3_WrittenIsPrefixOfEnqueued == IsPrefix(serial_tx, hist.enqueued)

\* two chunks were written in full, one of them in several writes
C3_Witness ==
    /\ hist.writes >= 2
    /\ hist.partial
    /\ hist.enqueued # <<>>
    /\ serial_tx = hist.enqueued

\* C4: after stop() is called on an adapter whose threads have been started,
\* both threads eventually exit and stop() returns, for every interleaving
\* of stop() with the start-up of the threads.
C4_StopTerminates ==
    (stopPc # "idle" /\ hist.stop_started)
        ~> (stopPc = "returned" /\ pumpPc = "done" /\ procPc = "done")

\* number of times o occurs in the list l
RECURSIVE Count(_, _)
Count(o, l) ==
    IF l = <<>> THEN 0
    ELSE (IF Head(l) = o THEN 1 ELSE 0) + Count(o, Tail(l))

\* C5: every observer that stays registered for the whole delivery of a
\* frame is notified of that frame exactly once, whatever register_observer
\* and unregister_observer calls happen during the delivery.
C5_StayingObserverNotifiedOnce ==
    hist.delivered =>
        \A o \in hist.last_stayed : Count(o, hist.last_seen) = 1

\* C6: when the observer list does not change during a delivery, the frame
\* is passed to every registered observer exactly once, in registration
\* order; registering a registered observer again adds no second entry.
C6_AllObserversInRegistrationOrder ==
    /\ (hist.delivered /\ ~hist.last_changed) => hist.last_seen = hist.last_obs
    /\ \A o \in Observers : Count(o, observers) <= 1

\* a frame went to two observers after one of them was registered twice
C6_Witness ==
    /\ hist.delivered
    /\ ~hist.last_changed
    /\ hist.rereg
    /\ Len(hist.last_seen) = 2

\* the segments are complete valid frames, then at most one proper prefix
FramesThenPrefix(segs) ==
    \A i \in 1..Len(segs) :
        \/ segs[i].kind = "valid"
        \/ i = Len(segs) /\ segs[i].kind = "prefix"

RECURSIVE ValidFramesOf(_)
ValidFramesOf(segs) ==
    IF segs = <<>> THEN <<>>
    ELSE (IF Head(segs).kind = "valid" THEN <<Head(segs).f>> ELSE <<>>)
         \o ValidFramesOf(Tail(segs))

PrefixBytesOf(segs) ==
    IF segs # <<>> /\ segs[Len(segs)].kind = "prefix"
    THEN DescBytes(segs[Len(segs)]) ELSE <<>>

\* C7: for a buffer of k >= 0 complete CRC-valid frames followed by a
\* (possibly empty) proper prefix of a frame, one extract_frames call returns
\* exactly the k frames in order, each as LENGTH || OPCODE || PAYLOAD, and
\* the incomplete prefix unchanged as the remainder.
C7_FramesThenPrefixExtracted ==
    (call.pc = "extracted" /\ FramesThenPrefix(call.segs)) =>
        /\ call.frames = ValidFramesOf(call.segs)
        /\ call.rest = PrefixBytesOf(call.segs)

\* two frames and a frame cut short were given, two frames came back
C7_Witness ==
    /\ call.pc = "extracted"
    /\ FramesThenPrefix(call.segs)
    /\ Len(call.segs) = 3
    /\ call.segs[3].kind = "prefix"
    /\ Len(call.frames) = 2
    /\ call.rest # <<>>

\* the last two bytes of a chunk
Trailer(chunk) == PyFrom(chunk, Len(chunk) - 2)

\* C8 as stated: the CRC-16 that write_uart_frame appends and that
\* extract_frames checks is computed over OPCODE || PAYLOAD only.
C8_CrcCoversOpcodeAndPayloadOnly ==
    /\ hist.last_chunk # <<>> =>
         Trailer(hist.last_chunk) = calculate_crc_bytes(Tail(hist.last_write))
    /\ call.pc = "extracted" =>
         \A i \in 1..Len(call.frames) :
            Occurs(call.frames[i] \o calculate_crc_bytes(Tail(call.frames[i])),
                   call.raw)

\* C8 amended: the CRC-16 that write_uart_frame appends and that
\* extract_frames checks is computed over LENGTH || OPCODE || PAYLOAD (the
\* preamble is not covered): a frame whose CRC covers OPCODE || PAYLOAD only
\* is rejected.
C8_CrcCoversLengthOpcodePayload ==
    /\ hist.last_chunk # <<>> =>
         /\ Trailer(hist.last_chunk) = calculate_crc_bytes(hist.last_write)
         /\ Trailer(hist.last_chunk) # calculate_crc_bytes(Tail(hist.last_write))
    /\ (call.pc = "extracted" /\ Len(call.segs) = 1) =>
         /\ call.segs[1].kind = "valid" => call.frames = <<call.segs[1].f>>
         /\ call.segs[1].kind = "opcrc" => call.frames = <<>>

\* a frame with a CRC over OPCODE || PAYLOAD was parsed, a frame was written
C8_Witness ==
    /\ call.pc = "extracted"
    /\ Len(call.segs) = 1
    /\ call.segs[1].kind = "opcrc"
    /\ hist.last_chunk # <<>>

\* the value v is in the declared domain of the field f
InDeclaredDomain(f, v) ==
    CASE f.kind = "int" -> IntFits(v, f.len)
      [] f.kind = "enum" -> v \in f.enum
      [] f.kind = "blob" -> Len(v) = f.len
      [] f.kind = "rest" -> TRUE
      [] f.kind = "ids" -> \A i \in 1..Len(v) : v[i] \in Members(ModelID)
      [] f.kind = "descs" ->
            \A i \in 1..Len(v) :
               /\ v[i].model_id \in Members(ModelID)
               /\ Len(v[i].config) =
                    IF v[i].model_id = ModelID.SensorSetupServerID
                    THEN UART_SENSOR_SETUP_SERVER_CONFIG_LEN ELSE 0

\* every field of msg holds a value of its declared size and type
DeclaredDomain(msg) ==
    LET fields == MessageClass(msg.type).fields IN
    \A i \in 1..Len(fields) : InDeclaredDomain(fields[i], msg[fields[i].name])

\* the value of the inner length field equals the length of the blob after it
InnerLengthAgrees(msg) ==
    LET fields == MessageClass(msg.type).fields IN
    msg[fields[Len(fields) - 1].name] = Len(msg[fields[Len(fields)].name])

\* C9 as stated: for every message variant and every assignment of field
\* values within each field's declared size (empty blobs and any value of
\* an inner length field included), deserialize_message(serialize_message(m))
\* returns a message equal to m.
C9_RoundTripEveryValue ==
    (call.pc = "deserialized" /\ DeclaredDomain(call.msg)) =>
        /\ call.out.exc = "none"
        /\ call.out.msg = call.msg

\* the messages the round trip gives back
RoundTripDomain(msg) ==
    /\ DeclaredDomain(msg)
    /\ msg.type # UartCommand.Generic
    /\ msg.type = UartCommand.FirmwareVersionResponse =>
         msg.firmware_version # <<>>
    /\ MessageClass(msg.type).shape = "inner_length" => InnerLengthAgrees(msg)

\* C9 amended: for every message variant but Generic and every assignment
\* of field values within each field's declared size and type, with a
\* firmware_version that is not empty and an inner length field
\* (app_data_length, data_len) equal to the length of its blob,
\* serialize_message succeeds and deserialize_message of its result returns
\* a message equal to m; a FirmwareVersionResponse with an empty version and
\* a DFU message whose inner length disagrees with its blob are rejected
\* with InvalidLen.
C9_RoundTripInDomain ==
    /\ (call.pc # "serialize" /\ RoundTripDomain(call.msg)) =>
         call.ser.exc = "none"
    /\ (call.pc = "deserialized" /\ RoundTripDomain(call.msg)) =>
         /\ call.out.exc = "none"
         /\ call.out.msg = call.msg
    /\ (/\ call.pc = "deserialized"
        /\ DeclaredDomain(call.msg)
        /\ ~RoundTripDomain(call.msg)) => call.out.exc = "InvalidLen"

\* a DfuInitRequest with application data came back equal
C9_Witness ==
    /\ call.pc = "deserialized"
    /\ call.msg.type = UartCommand.DfuInitRequest
    /\ RoundTripDomain(call.msg)
    /\ call.msg.app_data # <<>>
    /\ call.msg.firmware_size = 258
    /\ call.out.exc = "none"
    /\ call.out.msg = call.msg

\* C10: for every message that serialize accepts, the LENGTH byte written
\* first equals the number of payload bytes written after the OPCODE byte,
\* for every variant and every field content (a ModelDesc carrying a config
\* block and a UUID or hash blob of any length included).
C10_LengthByteCountsPayload ==
    (call.pc # "serialize" /\ call.ser.exc = "none") =>
        call.ser.bytes[1] = Len(call.ser.bytes) - 2

(***************************************************************************)
(* Calls of msg_class().deserialize and of deserialize_message on buffers: *)
(* the bytes serialize_message gives for a message, and those bytes cut    *)
(* short, followed by one more byte, with another LENGTH byte, with        *)
(* another OPCODE byte, or with another first payload byte.                *)
(***************************************************************************)
\* the most bytes cut from the end of a buffer
MaxCut == 2

\* the buffers of a class that come from the serializer; GenericMessage
\* serializes nothing, its buffer is LENGTH 0 and its opcode
BaseBuffers(type) ==
    IF type = UartCommand.Generic THEN {<<0, UartCommand.Generic>>}
    ELSE {serialize_message(m).bytes :
            m \in {Message(type, vals) :
                     vals \in {v \in FieldValues(MessageClass(type).fields) :
                                 RoundTripDomain(Message(type, v))}}}

\* opcode bytes put in place of the buffer's own: no command, a command
\* without a class, the command of GenericMessage, and another class
OtherOpcodes(type) ==
    {0, UartCommand.OpcodeError, UartCommand.Generic,
     IF type = UartCommand.PingRequest THEN UartCommand.PongResponse
     ELSE UartCommand.PingRequest} \ {type}

\* LENGTH bytes around the length l
LengthBytes(l) == {v \in {0, l - 1, l, l + 1, 255} : v \in 0..255}

Buffers(base) ==
    LET bodies == {SubSeq(base, 1, Len(base) - k) :
                      k \in 0..Min(MaxCut, Len(base))}
                  \cup {Append(base, b) : b \in CodecBytes}
        whole == {[base EXCEPT ![1] = v] : v \in LengthBytes(base[1])}
                 \cup {[base EXCEPT ![3] = b] :
                         \* bytes that are no member of any enumeration and no byte of a model id
                         b \in IF Len(base) >= 3 THEN {127} ELSE {}}
    IN  {IF Len(d) >= 1 THEN [d EXCEPT ![1] = v] ELSE d :
            d \in bodies, v \in LengthBytes(base[1])}
        \cup whole
        \cup {[d EXCEPT ![2] = op] :
                d \in whole, op \in OtherOpcodes(base[2])}

\* msg = msg_class(); msg.deserialize(io.BytesIO(data)), for the class of
\* call.type whatever the OPCODE byte of the buffer is
ClassDeserializeCall ==
    /\ call.pc = "decode"
    /\ \E r \in {deserialize(call.type, call.data)} :
         call' = [call EXCEPT !.pc = "decoded", !.direct = r]
    /\ UNCHANGED <<serial_busy, processing_frames, in_queue, out_queue,
                   observers, data_to_be_sent, not_processed_buffer_data,
                   frames, obs_idx, pumpPc, procPc, stopPc, serial_in,
                   serial_tx, cfg, hist>>

\* deserialize_message(data)
FactoryDeserializeCall ==
    /\ call.pc = "decoded"
    /\ \E r \in {deserialize_message(call.data)} :
         call' = [call EXCEPT !.pc = "dispatched", !.out = r]
    /\ UNCHANGED <<serial_busy, processing_frames, in_queue, out_queue,
                   observers, data_to_be_sent, not_processed_buffer_data,
                   frames, obs_idx, pumpPc, procPc, stopPc, serial_in,
                   serial_tx, cfg, hist>>

SpecDecode ==
    /\ InitAdapterState({<<>>}, 0, 0)
    /\ \E type \in UART_CLASSES :
         \E base \in BaseBuffers(type) :
           \E data \in Buffers(base) :
             call = [pc |-> "decode", type |-> type, base |-> base,
                     data |-> data, direct |-> [exc |-> "pending"],
                     out |-> [exc |-> "pending"]]
    /\ [][\/ ClassDeserializeCall
          \/ FactoryDeserializeCall]_vars

\* C11 as stated: for every message class, GenericMessage included,
\* deserialize of a buffer whose second byte differs from the opcode of the
\* class raises InvalidOpcode, whatever LENGTH and the payload are.
C11_WrongOpcodeEveryClass ==
    (call.pc # "decode" /\ Len(call.data) >= 2 /\ call.data[2] # call.type)
        => call.direct.exc = "InvalidOpcode"

\* C11 amended: for every message class but GenericMessage, deserialize of
\* a buffer whose second byte differs from the opcode of the class raises
\* InvalidOpcode, whatever LENGTH and the payload are (a LENGTH that
\* disagrees with the payload and a payload byte that is no member of the
\* field's enumeration included); GenericMessage.deserialize raises
\* AssertionError for every buffer.
C11_WrongOpcodeRaisesInvalidOpcode ==
    /\ (/\ call.pc # "decode"
        /\ call.type # UartCommand.Generic
        /\ Len(call.data) >= 2
        /\ call.data[2] # call.type) => call.direct.exc = "InvalidOpcode"
    /\ (call.pc # "decode" /\ call.type = UartCommand.Generic) =>
         call.direct.exc = "AssertionError"

\* CurrentStateResponseMessage.deserialize was given a buffer with the
\* opcode of PingRequest and a state byte that is no ModemState
C11_Witness ==
    /\ call.pc # "decode"
    /\ call.type = UartCommand.CurrentStateResponse
    /\ call.data = <<1, UartCommand.PingRequest, 127>>
    /\ call.direct.exc = "InvalidOpcode"

\* C12: for every message class that implements deserialize, deserialize
\* of a buffer with the opcode of the class whose LENGTH byte differs from
\* the number of payload bytes present after the opcode (fewer or more)
\* raises InvalidLen and returns no message.
C12_LengthDisagreesRaisesInvalidLen ==
    (/\ call.pc # "decode"
     /\ call.type # UartCommand.Generic
     /\ Len(call.data) >= 2
     /\ call.data[2] = call.type
     /\ call.data[1] # Len(call.data) - 2) => call.direct.exc = "InvalidLen"

ListCommands ==
    {t \in UART_CLASSES : MessageClass(t).shape \in {"ids", "descs"}}

\* the byte counts at which an element of the payload ends, walking the
\* payload from byte pos (0-based): a model id is UART_MODEL_ID_LEN bytes, a
\* ModelDesc is a model id followed, for SensorSetupServerID, by
\* UART_SENSOR_SETUP_SERVER_CONFIG_LEN bytes of config
RECURSIVE ElementEnds(_, _, _)
ElementEnds(shape, payload, pos) ==
    LET id == from_bytes(PySlice(payload, pos, pos + UART_MODEL_ID_LEN))
        size == IF shape = "descs" /\ id = ModelID.SensorSetupServerID
                THEN UART_MODEL_ID_LEN + UART_SENSOR_SETUP_SERVER_CONFIG_LEN
                ELSE UART_MODEL_ID_LEN
    IN  {pos} \cup (IF pos + size <= Len(payload)
                    THEN ElementEnds(shape, payload, pos + size) ELSE {})

\* the bytes of the elements of a decoded list, one after the other
ElementBytes(msg) ==
    IF MessageClass(msg.type).shape = "ids"
    THEN Concat([i \in 1..Len(msg.model_ids) |->
                   to_bytes(msg.model_ids[i], UART_MODEL_ID_LEN)])
    ELSE Concat([i \in 1..Len(msg.model_descs) |->
                   ModelDesc_serialize(msg.model_descs[i])])

\* C14: for the list-valued classes (InitDeviceEvent, CreateInstancesRequest,
\* CreateInstancesResponse, InitNodeEvent) and a buffer whose payload is a
\* sequence of whole elements, possibly followed by more bytes, with a
\* LENGTH of at most the bytes present: when LENGTH ends on an element
\* boundary the decoder returns the elements of the first LENGTH bytes in
\* wire order, and for every other LENGTH it raises InvalidLen.
C14_ListElementsInWireOrder ==
    (/\ call.pc # "decode"
     /\ call.type \in ListCommands
     /\ Len(call.data) >= 2
     /\ call.data[2] = call.type
     /\ IsPrefix(Tail(call.base), Tail(call.data))
     /\ call.data[1] <= Len(call.data) - 2) =>
        LET payload == PyFrom(call.data, 2)
            length == call.data[1]
        IN  IF length \in ElementEnds(MessageClass(call.type).shape,
                                      payload, 0)
            THEN /\ call.direct.exc = "none"
                 /\ ElementBytes(call.direct.msg) = PySlice(payload, 0, length)
            ELSE call.direct.exc = "InvalidLen"

\* two different model ids were decoded in the order of the wire
C14_Witness ==
    /\ call.pc # "decode"
    /\ call.type = UartCommand.InitDeviceEvent
    /\ call.direct.exc = "none"
    /\ call.direct.msg.model_ids =
         <<ModelID.SensorSetupServerID, ModelID.GenOnOffClientID>>
    /\ call.data[1] = 4

\* the classes with an inner length field before a trailing blob
InnerLengthCommands ==
    {t \in UART_CLASSES : MessageClass(t).shape = "inner_length"}

\* the value of the inner length field as the decoder reads it
InnerLengthRead(type, data) ==
    LET fixed == FixedLen(MessageClass(type).fields) IN
    from_bytes(stream_read(data, UART_LENGTH_LEN + UART_CMD_LEN + fixed - 1, 1))

\* the number of bytes present after the fixed fields
DataBytesPresent(type, data) ==
    Max(0, Len(data) - UART_LENGTH_LEN - UART_CMD_LEN
             - FixedLen(MessageClass(type).fields))

C16_DispatchOnSecondByte ==
    (call.pc = "dispatched" /\ Len(call.data) >= 2) =>
        /\ call.data[2] \notin UART_CLASSES => call.out.exc = "InvalidOpcode"
        /\ call.out.exc = "none" => call.out.msg.type = call.data[2]
        /\ call.data[2] = call.type => call.out = call.direct

\* the bytes of a CurrentStateResponse with the opcode byte of PingRequest
\* were decoded as a PingRequest
C16_Witness ==
    /\ call.pc = "dispatched"
    /\ call.type = UartCommand.CurrentStateResponse
    /\ Len(call.data) >= 2
    /\ call.data[2] = UartCommand.PingRequest
    /\ call.out.exc = "none"
    /\ call.out.msg.type = UartCommand.PingRequest

\* C17: for every buffer, deserialize_message returns a message or raises
\* InvalidOpcode or InvalidLen; no other exception leaves the call.
C17_OnlyTypedErrors ==
    call.pc = "dispatched" =>
        call.out.exc \in {"none", "InvalidOpcode", "InvalidLen"}

\* s is what is left of t after some bytes at its front were taken
IsSuffix(s, t) == \E k \in 0..Len(t) : s = PyFrom(t, k)

C19_ContinuesAfterCrcFailure ==
    (/\ call.pc = "extracted"
     /\ Len(call.segs) >= 2
     /\ call.segs[1].kind = "corrupt"
     /\ call.segs[2].kind = "valid") =>
        /\ call.frames # <<>>
        /\ call.frames[1] = call.segs[2].f

\* the valid frame f sits complete at the front of the reassembly buffer,
\* where a pass over a candidate with a wrong CRC has left it
RetainedFrame(f) ==
    /\ procPc \in {"loop", "for"}
    /\ IsPrefix(WireFrame(f), not_processed_buffer_data)

\* a valid frame sits complete at the front of the reassembly buffer
SomeRetainedFrame ==
    \E k \in 1..Len(hist.line_frames) : RetainedFrame(hist.line_frames[k])

\* C20: while the adapter runs, a complete valid frame left in the
\* reassembly buffer behind a candidate that failed its CRC check does not
\* stay there, whether or not further bytes arrive, and the step that takes
\* it out of the buffer passes it to the observers as the next frame: the
\* pump forwards every read, empty or not, and each forwarded read makes
\* the loop extract from the buffer again.
C20_RetainedFrameDelivered ==
    /\ SomeRetainedFrame ~> ~SomeRetainedFrame
    /\ [][\A k \in 1..Len(hist.line_frames) :
            LET f == hist.line_frames[k] IN
            (RetainedFrame(f) /\ ~RetainedFrame(f)')
                => hist'.dispatched = Append(hist.dispatched, f)]_vars

\* a candidate was dropped and a valid frame is left in the buffer while all
\* bytes of the wire have been read
C20_Witness ==
    /\ hist.crc_drops
    /\ serial_in = <<>>
    /\ SomeRetainedFrame

(***************************************************************************)
(* The frame-processing loop fed with a byte stream in chunks: each pass   *)
(* of UartAdapter.run appends one chunk to the carried remainder, extracts *)
(* the frames and delivers them.                                           *)
(***************************************************************************)
MaxStreamSegs == 3

\* lines 239-241, one pass of the loop: <<frames, not_processed_buffer_data>>
LoopPass(buffer, chunk) ==
    LET r == extract_frames(ChunkAppended(buffer, chunk))
    \* line 241: not_processed_buffer_data is what extract_frames returned
    IN  <<r[1], r[2]>>

\* the buffer is stable: a pass that gets no new byte delivers no frame and
\* leaves the buffer as it is
Stable(buffer) == LoopPass(buffer, <<>>) = <<<<>>, buffer>>

\* passes of the loop on empty reads until the buffer is stable:
\* <<frames delivered, not_processed_buffer_data>>
RECURSIVE Drain(_)
Drain(buffer) ==
    IF Stable(buffer) THEN <<<<>>, buffer>>
    ELSE LET r == LoopPass(buffer, <<>>)
             d == Drain(r[2])
         IN  <<r[1] \o d[1], d[2]>>

\* the loop fed with the whole stream as one chunk, then with empty reads
OneChunk(stream) ==
    LET r == LoopPass(<<>>, stream)
        d == Drain(r[2])
    IN  <<r[1] \o d[1], d[2]>>

\* one pass of the loop on the next n bytes of the stream (n = 0: an empty
\* read)
FeedChunk ==
    /\ call.pc = "feed"
    /\ \E n \in 0..Len(call.unfed) :
         \E r \in {LoopPass(call.buffer, PySlice(call.unfed, 0, n))} :
           call' = [call EXCEPT
                      !.unfed = PyFrom(@, n),
                      !.buffer = r[2],
                      !.delivered = @ \o r[1]]
    /\ UNCHANGED <<serial_busy, processing_frames, in_queue, out_queue,
                   observers, data_to_be_sent, not_processed_buffer_data,
                   frames, obs_idx, pumpPc, procPc, stopPc, serial_in,
                   serial_tx, cfg, hist>>

SpecChunks ==
    /\ InitAdapterState({<<>>}, 0, 0)
    /\ \E segs \in SeqsUpTo(SegPool, MaxStreamSegs) :
         call = [pc |-> "feed", stream |-> SegsBytes(segs),
                 unfed |-> SegsBytes(segs), buffer |-> <<>>,
                 delivered |-> <<>>]
    /\ [][FeedChunk]_vars

\* C21: however the stream is cut into chunks, the frames delivered so far
\* followed by the frames that one chunk holding the carried remainder and
\* the rest of the stream would deliver are the frames the whole stream
\* delivers as one chunk; once the stream is read and the buffer is stable,
\* the delivered frames and the remainder are those of the one-chunk run.
C21_ChunkingDoesNotMatter ==
    call.pc = "feed" =>
      /\ call.delivered \o OneChunk(call.buffer \o call.unfed)[1]
           = OneChunk(call.stream)[1]
      /\ (call.unfed = <<>> /\ Stable(call.buffer)) =>
           /\ call.delivered = OneChunk(call.stream)[1]
           /\ call.buffer = OneChunk(call.stream)[2]

(***************************************************************************)
(* Calls of extract_frames on a buffer g \o b: g is garbage that holds the *)
(* preamble at no position, b is empty or begins with the preamble.        *)
(***************************************************************************)
MaxGarbage == 6

\* bytes of the garbage: zero and the two bytes of the preamble
Garbage == {g \in SeqsUpTo({0, 85, 170}, MaxGarbage) : ~Occurs(UART_PREAMBLE, g)}

\* segments that begin with the preamble: a frame, a frame with a wrong
\* CRC, a cut frame, a header
PreambleSegs ==
    {DescBytes(d) : d \in {e \in SegPool :
                      PySlice(DescBytes(e), 0, 2) = UART_PREAMBLE}}

SpecGarbage ==
    /\ InitAdapterState({<<>>}, 0, 0)
    \* what follows the garbage: nothing, such a segment, or a frame and such
    \* a segment
    /\ \E g \in Garbage, b \in ({<<>>} \cup PreambleSegs
                                \cup {WireFrame(f) \o t : f \in HostFrames, t \in PreambleSegs}) :
         call = [pc |-> "extract", g |-> g, b |-> b, raw |-> g \o b,
                 frames |-> <<>>, rest |-> <<>>, exc |-> "none"]
    /\ [][ExtractCall]_vars

\* C22: for a buffer that holds the preamble at no position, extract_frames
\* returns no frame and the whole buffer as the remainder; when the buffer
\* ends in 0xAA, the remainder followed by the rest of a frame (0x55,
\* LENGTH, OPCODE, PAYLOAD, CRC) yields that frame in the next call.
C22_NoPreambleKeepsWholeBuffer ==
    (call.pc \in {"extracted", "raised"} /\ call.b = <<>>) =>
      /\ call.pc = "extracted"
      /\ call.frames = <<>>
      /\ call.rest = call.raw
      /\ (call.raw # <<>> /\ call.raw[Len(call.raw)] = 170) =>
           \A f \in HostFrames :
             extract_frames(call.rest \o Tail(WireFrame(f)))[1] = <<f>>

MaxIterSegs == 2

\* extract_frames returns no frame and its argument
FixedPoint(r) == extract_frames(r) = <<<<>>, r>>

\* one application: frames, rest = extract_frames(rest); call.emitted is
\* the number of frames it returned, call.fixed tells that it returned no
\* frame and its argument, call.steps counts the applications before that
ApplyExtract ==
    /\ call.pc = "iterate"
    /\ \E r \in {extract_frames(call.rest)} :
         call' = [call EXCEPT
                    !.rest = r[2],
                    !.frames = @ \o r[1],
                    !.emitted = Len(r[1]),
                    !.fixed = (r = <<<<>>, call.rest>>),
                    !.steps = IF r = <<<<>>, call.rest>> THEN @ ELSE @ + 1]
    /\ UNCHANGED <<serial_busy, processing_frames, in_queue, out_queue,
                   observers, data_to_be_sent, not_processed_buffer_data,
                   frames, obs_idx, pumpPc, procPc, stopPc, serial_in,
                   serial_tx, cfg, hist>>

SpecIterate ==
    /\ InitAdapterState({<<>>}, 0, 0)
    /\ \E raw \in {SegsBytes(segs) : segs \in SeqsUpTo(SegPool, MaxIterSegs)}
                  \cup Garbage :
         call = [pc |-> "iterate", raw |-> raw, rest |-> raw,
                 frames |-> <<>>, emitted |-> 0, steps |-> 0,
                 fixed |-> FALSE]
    /\ [][ApplyExtract]_vars
    /\ WF_vars(ApplyExtract)

\* C24: the applications reach a remainder that is a fixed point and stay
\* there, and every application to a remainder that is not a fixed point
\* returns a frame or a shorter remainder.
C24_IterationConverges ==
    /\ <>[](call.fixed)
    /\ [][call'.fixed \/ call'.emitted > 0
                      \/ Len(call'.rest) < Len(call.rest)]_vars

\* a fixed point reached by an application that shortened the remainder
\* without returning a frame and one that returned a frame
C24_Witness ==
    /\ call.pc = "iterate"
    /\ call.fixed
    /\ call.steps = 2
    /\ Len(call.frames) = 1
    /\ FixedPoint(call.rest)

(***************************************************************************)
(* The application's thread calls change_baudrate, write_uart_frame,       *)
(* register_observer and stop while the two threads run.  call holds the   *)
(* baudrate of the serial object, the local settings of set_baudrate and   *)
(* the methods of the serial object that a thread other than the pump has  *)
(* called during the pump's loop.                                          *)
(***************************************************************************)
DefaultBaudrate == 56700

\* the pump's thread is in its while loop (lines 65-75)
PumpLoopRunning == pumpPc = "loop"

\* change_baudrate -> set_baudrate, lines 39-40, in the caller's thread:
\* settings = self._serial.get_settings(); settings["baudrate"] = baudrate
SetBaudrateGetSettings(baudrate) ==
    /\ call.pc = "idle"
    /\ call' = [call EXCEPT
                  !.pc = "settings",
                  !.settings = [baudrate |-> baudrate],
                  !.foreign = IF PumpLoopRunning
                              THEN @ \cup {"get_settings"} ELSE @]
    /\ UNCHANGED <<serial_busy, processing_frames, in_queue, out_queue,
                   observers, data_to_be_sent, not_processed_buffer_data,
                   frames, obs_idx, pumpPc, procPc, stopPc, serial_in,
                   serial_tx, cfg, hist>>

\* set_baudrate, line 42, in the caller's thread:
\* self._serial.apply_settings(settings)
SetBaudrateApplySettings ==
    /\ call.pc = "settings"
    /\ call' = [call EXCEPT
                  !.pc = "idle",
                  !.serial_baudrate = call.settings.baudrate,
                  !.foreign = IF PumpLoopRunning
                              THEN @ \cup {"apply_settings"} ELSE @]
    /\ UNCHANGED <<serial_busy, processing_frames, in_queue, out_queue,
                   observers, data_to_be_sent, not_processed_buffer_data,
                   frames, obs_idx, pumpPc, procPc, stopPc, serial_in,
                   serial_tx, cfg, hist>>

SpecBaud ==
    /\ InitAdapterState({<<>>}, 1, 1)
    /\ call = [pc |-> "idle", serial_baudrate |-> DefaultBaudrate,
               settings |-> [baudrate |-> DefaultBaudrate], foreign |-> {}]
    /\ [][\/ PumpStart
          \/ PumpIter
          \/ PumpExit
          \/ AdapterStart
          \/ ProcStart
          \/ ProcGet
          \/ ProcExit
          \/ \E o \in Observers : RegisterObserver(o)
          \/ \E f \in HostFrames, send_raw \in BOOLEAN : WriteUartFrame(f, send_raw)
          \/ \E b \in {DefaultBaudrate, 115200} : SetBaudrateGetSettings(b)
          \/ SetBaudrateApplySettings
          \/ StopCall
          \/ StopJoinConn
          \/ StopJoin]_vars

\* C25: while the pump's loop runs, no thread but the pump calls a method of
\* the serial object: neither write_uart_frame, change_baudrate, stop nor
\* the registration of an observer reads, writes or reconfigures it.
C25_SerialOwnedByPump == call.foreign = {}

(***************************************************************************)
(* The transport pump with a serial port whose write and read_all can      *)
(* raise.  call.failed names the call that raised ("none": none has).      *)
(***************************************************************************)
\* where the pump is after a serial call raised, were the exception caught
\* inside the loop
AfterSerialErrorCaught == "loop"

\* run has no try block: the exception leaves the while loop and run, and
\* the thread ends (pumpPc: where the pump is after a serial call raised)
AfterSerialError == "failed"

\* line 70 raises: the chunk was taken from the queue (line 67), the port
\* took the first sent_bytes_n bytes before the call raised, line 73 is not
\* reached
PumpWriteRaises ==
    /\ pumpPc = "loop"
    /\ serial_busy
    /\ call.failed = "none"
    /\ PumpData # <<>>
    /\ \E sent_bytes_n \in 0..Len(PumpData) :
         serial_tx' = serial_tx \o PySlice(PumpData, 0, sent_bytes_n)
    /\ out_queue' = IF data_to_be_sent = <<>> /\ out_queue # <<>>
                    THEN Tail(out_queue) ELSE out_queue
    /\ data_to_be_sent' = PumpData
    /\ pumpPc' = AfterSerialError
    /\ call' = [call EXCEPT !.failed = "write"]
    /\ UNCHANGED <<serial_busy, processing_frames, in_queue, observers,
                   not_processed_buffer_data, frames, obs_idx, procPc,
                   stopPc, serial_in, cfg, hist>>

\* lines 66-71 as in every iteration, then read_all raises at line 73:
\* nothing is put on the queue
PumpReadRaises ==
    /\ pumpPc = "loop"
    /\ serial_busy
    /\ call.failed = "none"
    /\ \E sent_bytes_n \in 0..Len(PumpData) :
         /\ serial_tx' = serial_tx \o PySlice(PumpData, 0, sent_bytes_n)
         /\ data_to_be_sent' = RestAfterWrite(PumpData, sent_bytes_n)
         /\ hist' = [hist EXCEPT
                       !.partial = @ \/ (0 < sent_bytes_n
                                         /\ sent_bytes_n < Len(PumpData))]
    /\ out_queue' = IF data_to_be_sent = <<>> /\ out_queue # <<>>
                    THEN Tail(out_queue) ELSE out_queue
    /\ pumpPc' = AfterSerialError
    /\ call' = [call EXCEPT !.failed = "read"]
    /\ UNCHANGED <<serial_busy, processing_frames, in_queue, observers,
                   not_processed_buffer_data, frames, obs_idx, procPc,
                   stopPc, serial_in, cfg>>

SpecFail ==
    /\ InitAdapterState({<<"valid">>}, 0, 1)
    /\ call = [pc |-> "none", failed |-> "none"]
    /\ [][\/ PumpStart
          \/ PumpIter
          \/ PumpWriteRaises
          \/ PumpReadRaises
          \/ AdapterStart
          \/ ProcStart
          \/ ProcGet
          \/ ProcIdle
          \* no observer is registered: the for loop of _insert_parsed_frame
          \* has no iteration
          \/ ProcForEnd
          \/ \E f \in HostFrames, send_raw \in BOOLEAN : WriteUartFrame(f, send_raw)]_vars

\* C26: once serial.write or serial.read_all has raised in the pump, the
\* pump has left its loop for good: nothing more is written to the port,
\* nothing more is read from it and nothing more is put on the inbound
\* queue (the loop of the adapter may still take chunks off that queue).
C26_PumpStopsAfterSerialError ==
    [][call.failed # "none" =>
         /\ pumpPc' = pumpPc
         /\ pumpPc # "loop"
         /\ serial_tx' = serial_tx
         /\ serial_in' = serial_in
         /\ hist'.wire = hist.wire
         /\ in_queue' = in_queue
              \/ (in_queue # <<>> /\ in_queue' = Tail(in_queue))]_vars

\* read_all has raised while a chunk was partly written and bytes of the
\* modem are unread; the loop of the adapter is running
C26_Witness ==
    /\ call.failed = "read"
    /\ pumpPc = "failed"
    /\ data_to_be_sent # <<>>
    /\ serial_tx # <<>>
    /\ serial_in # <<>>
    /\ procPc = "loop"

(***************************************************************************)
(* Send side against receive side: the chunk write_uart_frame has put on   *)
(* the outbound queue is handed to extract_frames.                         *)
(***************************************************************************)
MaxPayload == 2

\* bytes of OPCODE and PAYLOAD: zero, the bytes of the preamble, 0xFF
FrameBytes == {0, 85, 170, 255}

\* LENGTH is the number of bytes of PAYLOAD
WellFormed(f) == Len(f) >= 2 /\ f[1] = Len(f) - 2

\* write_uart_frame(uart_frame, send_raw); the chunk it has put on the
\* outbound queue becomes the argument of extract_frames
WriteThenTake(uart_frame, send_raw) ==
    /\ call.pc = "idle"
    /\ hist.writes < cfg.writes
    /\ out_queue' = Append(out_queue, FrameToSend(uart_frame, send_raw))
    /\ hist' = [hist EXCEPT
                  !.writes = @ + 1,
                  !.enqueued = @ \o FrameToSend(uart_frame, send_raw),
                  !.last_write = IF send_raw THEN @ ELSE uart_frame,
                  !.last_chunk = IF send_raw THEN @
                                 ELSE FrameToSend(uart_frame, send_raw)]
    /\ call' = [call EXCEPT !.pc = "extract",
                            !.raw = FrameToSend(uart_frame, send_raw),
                            !.send_raw = send_raw,
                            !.uart_frame = uart_frame]
    /\ UNCHANGED <<serial_busy, processing_frames, in_queue, observers,
                   data_to_be_sent, not_processed_buffer_data, frames,
                   obs_idx, pumpPc, procPc, stopPc, serial_in, serial_tx,
                   cfg>>

SpecLoopback ==
    /\ InitAdapterState({<<>>}, 0, 1)
    /\ call = [pc |-> "idle", raw |-> <<>>, frames |-> <<>>, rest |-> <<>>,
               exc |-> "none", send_raw |-> FALSE, uart_frame |-> <<>>]
    \* LENGTH || OPCODE || PAYLOAD, with LENGTH right or off by one
    /\ [][\/ \E f \in ({<<l, op>> \o p : l \in 0..(MaxPayload + 1), op \in FrameBytes,
                                         p \in SeqsUpTo(FrameBytes, MaxPayload)}), send_raw \in BOOLEAN : WriteThenTake(f, send_raw)
          \/ ExtractCall]_vars

\* C27: the chunk that write_uart_frame enqueues for a frame whose LENGTH
\* is the length of its PAYLOAD, without send_raw, is the preamble, the
\* frame and the CRC with its low byte first, and extract_frames returns
\* from it that frame alone and an empty remainder.
C27_SentFrameParsesBack ==
    (call.pc \in {"extracted", "raised"} /\ ~call.send_raw
        /\ WellFormed(call.uart_frame)) =>
      /\ call.pc = "extracted"
      /\ Head(out_queue) = call.raw
      /\ call.raw = UART_PREAMBLE \o call.uart_frame
                      \o <<calculate_crc(call.uart_frame) % 256,
                           calculate_crc(call.uart_frame) \div 256>>
      /\ call.frames = <<call.uart_frame>>
      /\ call.rest = <<>>

\* a frame whose payload is the preamble has been sent and parsed back
C27_Witness ==
    /\ call.pc = "extracted"
    /\ ~call.send_raw
    /\ call.uart_frame = <<2, 255, 170, 85>>
    /\ call.frames = <<(<<2, 255, 170, 85>>)>>
    /\ call.rest = <<>>

(***************************************************************************)
(* The frame-processing loop with observers whose new_frame_notification   *)
(* can raise.  call holds the exception of the last raise, the frame it    *)
(* happened on, the observers behind the raising one and the frames of the *)
(* batch behind that frame.                                                *)
(***************************************************************************)
\* where the loop is after an exception left the for loop, with a handler
\* for every exception
AfterObserverErrorCaughtAll(exc) == "loop"

\* where the loop is after an exception left the for loop: the try block of
\* lines 238-246 encloses the deliveries and handles queue.Empty; any other
\* exception leaves run and the thread ends
AfterObserverError(exc) == IF exc = "queue.Empty" THEN "loop" ELSE "failed"

\* line 195 raises exc in the observer the iterator has yielded
ProcNotifyRaises(exc) ==
    /\ procPc = "for"
    /\ obs_idx < Len(observers)
    /\ call' = [call EXCEPT
                  !.raised = exc,
                  !.frame = Head(frames),
                  !.later_observers =
                      {observers[i] : i \in (obs_idx + 2)..Len(observers)},
                  !.later_frames =
                      @ \cup {frames[i] : i \in 2..Len(frames)}]
    /\ procPc' = AfterObserverError(exc)
    /\ frames' = <<>>
    /\ obs_idx' = 0
    /\ hist' = [hist EXCEPT !.cur_seen = <<>>,
                            !.cur_stayed = {},
                            !.cur_changed = FALSE]
    /\ UNCHANGED <<serial_busy, processing_frames, in_queue, out_queue,
                   observers, data_to_be_sent, not_processed_buffer_data,
                   pumpPc, stopPc, serial_in, serial_tx, cfg>>

SpecRaise ==
    /\ InitAdapterState({<<"valid", "valid">>, <<"valid", "valid", "valid">>},
                        2, 0)
    /\ call = [pc |-> "none", raised |-> "none", frame |-> <<>>,
               later_observers |-> {}, later_frames |-> {}]
    /\ [][\/ PumpStart
          \/ PumpIter
          \/ AdapterStart
          \/ ProcStart
          \/ ProcGet
          \/ ProcNotify
          \/ ProcForEnd
          \* exceptions an observer raises: queue.Empty and any other exception
          \/ \E exc \in {"queue.Empty", "other"} : ProcNotifyRaises(exc)
          \/ \E o \in Observers : RegisterObserver(o)]_vars

\* the observers behind the raising one have not got the frame of the last
\* raise, and no frame that was behind a raise in its batch is delivered
RaiseCutsDelivery ==
    /\ \A o \in call.later_observers :
         \A i \in 1..Len(hist.notified[o]) :
           hist.notified[o][i] # call.frame
    /\ \A i \in 1..Len(hist.dispatched) :
         hist.dispatched[i] \notin call.later_frames

\* C28 as stated: after any exception of an observer the observers behind
\* it do not get the frame, the rest of the batch is not delivered, and
\* no frame is delivered any more.
C28_AnyRaiseEndsDelivery ==
    /\ [](RaiseCutsDelivery)
    /\ [][call.raised # "none" =>
            /\ hist'.dispatched = hist.dispatched
            /\ hist'.notified = hist.notified]_vars

\* C28: after any exception of an observer the observers behind it do not
\* get the frame and the rest of the batch is not delivered; after an
\* exception other than queue.Empty the loop has ended and no frame is
\* delivered any more.
C28_UncaughtRaiseEndsDelivery ==
    /\ [](RaiseCutsDelivery)
    /\ [][(call.raised # "none" /\ call.raised # "queue.Empty") =>
            /\ procPc = "failed"
            /\ procPc' = "failed"
            /\ hist'.dispatched = hist.dispatched
            /\ hist'.notified = hist.notified]_vars

\* the first of two observers has raised on the first frame of a batch of
\* two, the loop has ended and a third frame waits in the queue
C28_Witness ==
    /\ call.raised = "other"
    /\ procPc = "failed"
    /\ call.later_observers # {}
    /\ call.later_frames # {}
    /\ in_queue # <<>>
    /\ Head(in_queue) = WireFrame(LineFrame(3))

(***************************************************************************)
(* The send path while the adapter runs and is never stopped: no serial    *)
(* call raises, and the port accepts a byte again and again.               *)
(***************************************************************************)
\* an iteration of the pump in which serial.write accepts at least one byte
PumpWriteSome == PumpIter /\ serial_tx' # serial_tx

\* the pump and the loop take their steps (the loop empties the inbound
\* queue, which the model bounds by MaxInQ), and of the iterations with
\* bytes to send, infinitely many have the port accept a byte
SpecSend ==
    /\ InitAdapter({<<>>}, 0, MaxWrites)
    /\ [][\/ \E f \in HostFrames, send_raw \in BOOLEAN : WriteUartFrame(f, send_raw)
          \/ PumpStart
          \/ PumpIter
          \/ AdapterStart
          \/ ProcStart
          \/ ProcGet
          \/ ProcIdle]_vars
    /\ WF_vars(PumpStart \/ PumpIter)
    /\ SF_vars(PumpWriteSome)
    /\ WF_vars(AdapterStart \/ ProcStart \/ ProcGet \/ ProcIdle)

MaxOver == 2

\* the largest value of the LENGTH byte
LengthLimit == Pow256(UART_LENGTH_LEN) - 1

\* lengths from just below the limit to MaxOver above it
Totals == (LengthLimit - 1)..(LengthLimit + MaxOver)

\* values of a field of variable length that bring get_length to a value
\* of Totals (for a list: to the last multiple of the element's length up
\* to that value, and to the next one), fixed being the length of the
\* other fields
LongFieldDomain(f, fixed) ==
    CASE f.kind = "rest" ->
            UNION {BytesOfLen(t - fixed) : t \in Totals}
      [] f.kind = "ids" ->
            {[i \in 1..((t - fixed) \div UART_MODEL_ID_LEN + k) |-> id] :
                t \in Totals, k \in {0, 1}, id \in {ModelID.GenOnOffClientID}}
      [] f.kind = "descs" ->
            {[i \in 1..((t - fixed) \div ModelDesc_get_length(d) + k) |-> d] :
                t \in Totals, k \in {0, 1},
                d \in {ModelDesc(ModelID.GenOnOffClientID, <<>>)}
                      \cup {ModelDesc(ModelID.SensorSetupServerID, c) :
                         c \in BytesOfLen(UART_SENSOR_SETUP_SERVER_CONFIG_LEN)}}
      [] OTHER -> FieldDomain(f)

RECURSIVE LongFieldValues(_, _)
LongFieldValues(fields, fixed) ==
    IF fields = <<>> THEN {<<>>}
    ELSE {<<v>> \o vals : v \in LongFieldDomain(Head(fields), fixed),
                          vals \in LongFieldValues(Tail(fields), fixed)}

\* the bytes the serialization of field f has written when to_bytes raises
\* for one of its integers
WrittenBeforeOverflow(f, v) ==
    IF f.kind \in {"ids", "descs"}
    THEN LET id(i) == IF f.kind = "ids" THEN v[i] ELSE v[i].model_id
             k == CHOOSE i \in 1..Len(v) :
                    /\ ~IntFits(id(i), UART_MODEL_ID_LEN)
                    /\ \A j \in 1..(i - 1) : IntFits(id(j), UART_MODEL_ID_LEN)
         IN  FieldBytes(f, SubSeq(v, 1, k - 1))
    ELSE <<>>

\* the stream after the writes of the fields, up to the first that raises
RECURSIVE WriteFields(_, _, _)
WriteFields(fields, msg, stream) ==
    IF fields = <<>> THEN stream
    ELSE LET f == Head(fields)
             v == msg[f.name]
         IN  IF FieldOverflows(f, v)
             THEN stream \o WrittenBeforeOverflow(f, v)
             ELSE WriteFields(Tail(fields), msg, stream \o FieldBytes(f, v))

\* the content of the stream when msg.serialize(stream) returns or raises:
\* serialize_common_part converts the length before its first write
StreamAfterSerialize(msg) ==
    IF MessageClass(msg.type).shape = "generic" THEN <<>>
    ELSE IF ~IntFits(get_length(msg), UART_LENGTH_LEN) THEN <<>>
    ELSE WriteFields(MessageClass(msg.type).fields, msg,
                     serialize_common_part(msg))

\* serialize_message(call.msg): stream = io.BytesIO(); msg.serialize(stream)
SerializeToStream ==
    /\ call.pc = "serialize"
    /\ \E r \in {serialize_message(call.msg)} :
         call' = [call EXCEPT !.pc = "serialized", !.ser = r,
                              !.stream = StreamAfterSerialize(call.msg)]
    /\ UNCHANGED <<serial_busy, processing_frames, in_queue, out_queue,
                   observers, data_to_be_sent, not_processed_buffer_data,
                   frames, obs_idx, pumpPc, procPc, stopPc, serial_in,
                   serial_tx, cfg, hist>>

SpecLong ==
    /\ InitAdapterState({<<>>}, 0, 0)
    /\ \E msg \in (UNION {{Message(type, vals) :
                              vals \in LongFieldValues(MessageClass(type).fields,
                                                       FixedLen(MessageClass(type).fields))} :
                          \* the classes with a field of variable length
                          type \in ({type \in UART_CLASSES :
                                        \E i \in 1..Len(MessageClass(type).fields) :
                                            MessageClass(type).fields[i].kind \in {"rest", "ids", "descs"}})}) :
         call = [pc |-> "serialize", msg |-> msg, ser |-> [exc |-> "pending"],
                 stream |-> <<>>]
    /\ [][SerializeToStream]_vars

\* C30: serializing a message whose length, computed from its fields, is
\* above 255 raises before a byte is written to the stream; a serialization
\* that returns has written the computed length itself, which is at most
\* 255, as the LENGTH byte.
C30_LengthAboveLimitRaises ==
    call.pc = "serialized" =>
      /\ get_length(call.msg) > LengthLimit =>
           /\ call.ser.exc = "OverflowError"
           /\ call.stream = <<>>
      /\ call.ser.exc = "none" =>
           /\ get_length(call.msg) <= LengthLimit
           /\ call.ser.bytes[1] = get_length(call.msg)
           /\ call.stream = call.ser.bytes

\* a PingRequest with 256 bytes of data: serialize_message raises and the
\* stream is empty
C30_Witness ==
    /\ call.pc = "serialized"
    /\ call.msg.type = UartCommand.PingRequest
    /\ Len(call.msg.data) = LengthLimit + 1
    /\ call.ser.exc = "OverflowError"
    /\ call.stream = <<>>

====
